---- MODULE Spec2Model ----
(***************************************************************************)
(* Model of the anki-vibe change-detection and batched-sync engine:        *)
(* SyncService (services/sync_service.py), PullService                     *)
(* (services/pull_service.py), StateManager (core/state_manager.py),       *)
(* the fingerprints of utils/hashing.py and the command entry points of    *)
(* main.py.  One collection (one target / one model folder) is modelled in  *)
(* detail; the other collections of a run are siblings of which only the   *)
(* outcome is kept.  The remote application is the environment and answers *)
(* every call nondeterministically.                                        *)
(***************************************************************************)
EXTENDS Integers, Sequences, FiniteSets, TLC

\* ------------------------------------------------------------------ bounds
MaxNotes == 2      \* records in the small local file
MaxRuns  == 2      \* pull / sync commands run in one behaviour
MaxEdits == 1      \* user edits between commands
MaxErrPos == 2     \* positions of a batch response that may carry an error entry
MaxBulk  == 501    \* records of the largest bulk file (chunking specification)
MaxTargets == 2    \* sibling collections of a run
MaxPoolModels == 2 \* models handed to the worker pool of a whole-profile pull
MaxHashCalls == 3  \* hashes computed for one note in one behaviour
MaxCalls == 4      \* calls made on the shared DatabaseManager in one behaviour

\* ------------------------------------------------------- program constants
chunk_size == 500

\* --------------------------------------------------------------- universes
Modes == {"project", "legacy"}
ModelName == "M"
Decks == {"Default", "D2"}
TagLists == {<< >>, <<"a", "b">>, <<"b", "a">>}
FieldMaps == {[Front |-> "x"], [Front |-> "y"]}
NewContents == {[deck |-> "Default", tags |-> <<"b", "a">>, fields |-> [Front |-> "x"]],
                [deck |-> "D2", tags |-> << >>, fields |-> [Front |-> "y"]]}
CssValues == {"", "c", "c\n"}
TemplateNames == {"Card 1", "card 1"}

\* Python None / absent entry; also the JSON null of an addNotes response is 0,
\* which `if new_id:` treats like None (sync_service.py:218).
None == << >>
NULL == 0

Min(a, b) == IF a < b THEN a ELSE b
SetMax(S) == IF S = {} THEN 0 ELSE CHOOSE m \in S : \A x \in S : x <= m
Range(s) == {s[k] : k \in DOMAIN s}
Put(f, k, v) == [x \in DOMAIN f \cup {k} |-> IF x = k THEN v ELSE f[x]]
Get(f, k) == IF k \in DOMAIN f THEN f[k] ELSE None

\* ------------------------------------------------------------ utils/hashing
\* Ordinal order of the tag strings used ("a" < "b"), for Python's sorted().
TagRank(t) == IF t = "a" THEN 1 ELSE 2
sorted(tags) == SortSeq(tags, LAMBDA x, y : TagRank(x) < TagRank(y))

\* json.dumps(sort_keys=True) followed by md5: the canonical form stands for
\* its digest (digest collisions are not modelled).
compute_hash(data) == data

\* A dict as its owner built it is the sequence of its items <<key, value>> in
\* insertion order; json.dumps(sort_keys=True) (line 11) writes them in key
\* order, so that the text depends on the mapping only.
dumps_in_order(items) == items
dumps_sort_keys(items) ==
    [k \in {items[i][1] : i \in DOMAIN items} |->
        items[CHOOSE i \in DOMAIN items : items[i][1] = k][2]]

compute_note_hash_fields_only(deck, tags, fields) ==
    compute_hash(<<fields>>)
compute_note_hash(deck, tags, fields) ==
    compute_hash(<<deck, sorted(tags), fields>>)

\* str.strip() on the style texts used.
strip(css) == IF css = "c\n" THEN "c" ELSE css

compute_model_hash(css, templates) ==
    compute_hash(<<strip(css), templates>>)

\* ------------------------------------------------------- utils/text_utils
\* sanitize_filename(name).lower() on the template names used.
safe_tpl_name(name) == IF name \in {"Card 1", "card 1"} THEN "card_1" ELSE name
\* file.name.replace("_front.html", "").replace("_", " ").title()
card_name(stem) == IF stem = "card_1" THEN "Card 1" ELSE stem
\* The models of the sibling collections, and sanitize_filename on the model
\* names used (white space becomes "_").
SiblingModels == <<"S 1", "S 2", "S 3">>
sanitize_filename(name) ==
    CASE name = "S 1" -> "S_1" [] name = "S 2" -> "S_2" [] name = "S 3" -> "S_3"
      [] name = "M:" -> "M"
      [] OTHER -> name
\* f.startswith(("_", ".")) on the directory names used.
startswith_hidden(f) == f \in {".git", "_media"}

\* ------------------------------------------------------------------- state
VARIABLES
    mode,               \* how the commands were started: project config or --profile
    remoteNotes,        \* remote store: note id -> [deck, tags, fields]
    nextId,             \* next identifier the remote assigns
    remoteCss,          \* remote style text of the model
    remoteTemplates,    \* remote templates: name -> <<qfmt, afmt>>
    notesExists,        \* notes.yaml exists
    notesFile,          \* notes.yaml: sequence of [id, deck, tags, fields]
    cssExists,          \* style.css exists
    cssFile,            \* style.css text
    tplFiles,           \* <stem>_front.html / <stem>_back.html: stem -> <<front, back>>
    stateFiles,         \* persisted state per store path: [models, notes]
    pc,                 \* position of the running command
    state,              \* StateManager.state of the running command
    notes_data,         \* _sync_notes locals
    to_create,
    to_create_indices,
    batch_actions,
    dirty_note_hashes,
    new_ids,
    chunk_i,            \* number of chunks handed to multi so far
    \* history of the run in progress
    runs, edits,
    createCalls,        \* add_notes calls of this run
    submitted,          \* chunks handed to multi in this run, in order
    failedChunk,        \* index of the chunk whose multi call raised, 0 if none
    rejected,           \* ids with an error entry in a batch response of this run
    styleCalls,         \* update_model_styling calls of this run
    hash0,              \* state["notes"] when _sync_notes started
    runOk,              \* no remote call of this run raised or returned a null so far
    \* history of the previous command, while nothing was edited since
    prevOp,             \* "none" | "sync" | "pull" | "nolist" (pull that got no listing)
    prevOk,             \* the previous command met no failure
    prevNull,           \* file indices whose creation returned null in the previous sync
    prevGot,            \* file indices that got an identifier in the previous sync
    prevFailed,         \* ids whose sub-operations were in the failed chunk of the previous sync
    prevWrote,          \* the previous sync issued a create call or an update batch
    \* the other collections of the run and the directories of the root
    targets,            \* number of sibling collections of a run
    sibs,               \* outcome of each sibling handled so far in this run, in order
    dirs,               \* names of the directories under the root
    rmFailed,           \* directories whose removal failed in the last cleanup
    fileWrites,         \* dumps of notes.yaml by this sync run
    created,            \* file index -> remote notes created for that record since the last edit
    outcome,            \* exit status of the last command and what ended it
    configOk,           \* config.yaml of the folder exists and names its model
    \* core/database.py: one DatabaseManager shared by threads
    _connection,        \* [h: handle held (0 is None), open: that handle is open, last: handles made]
    _lock,              \* thread holding the RLock, 0 if free
    note_states,        \* rows <<note_id, hash>> of table note_states
    model_states,       \* rows <<model_name, hash>> of table model_states
    threads,            \* thread -> [pc, op, ns, key, hash, conn, ret, want, raised]
    asked,              \* [sets: the set calls committed so far, in order; closes: close() calls returned;
                        \*  shut: the last close() returned after the last committed set]
    \* pull_all_models: the workers of the pool
    wdone,              \* worker -> number of hash updates it has made
    listing,            \* worker -> model name of the remote listing it was given
    \* utils/hashing.py called on its own
    hashIn,             \* a note as the caller holds it: [deck, tags, items]
    hashOut             \* the hashes computed so far, in order

vars == <<mode, remoteNotes, nextId, remoteCss, remoteTemplates, notesExists,
          notesFile, cssExists, cssFile, tplFiles, stateFiles, pc, state,
          notes_data, to_create, to_create_indices, batch_actions,
          dirty_note_hashes, new_ids, chunk_i, runs, edits, createCalls,
          submitted, failedChunk, rejected, styleCalls, hash0, runOk, prevOp,
          prevOk, prevNull, prevGot, prevFailed, prevWrote, targets, sibs, dirs,
          rmFailed, fileWrites, created, outcome, configOk, _connection,
          _lock, note_states, model_states, threads, asked, wdone, listing, hashIn,
          hashOut>>

treeVars == <<targets, dirs, rmFailed>>
storeVars == <<_connection, _lock, note_states, model_states, threads, asked>>
poolVars == <<wdone, listing>>
sideVars == <<storeVars, poolVars, hashIn, hashOut>>
remoteVars == <<remoteNotes, nextId, remoteCss, remoteTemplates>>
fileVars == <<notesExists, notesFile, cssExists, cssFile, tplFiles>>
localVars == <<notes_data, to_create, to_create_indices, batch_actions,
               dirty_note_hashes, new_ids, chunk_i>>
runVars == <<createCalls, submitted, failedChunk, rejected, styleCalls, hash0, runOk>>
prevVars == <<prevOp, prevOk, prevNull, prevGot, prevFailed, prevWrote>>

\* ------------------------------------------------------ core/state_manager
EmptyState == [models |-> << >>, notes |-> << >>]
\* StateManager._load_state: a missing or corrupted file gives the empty state.
_load_state(path) == stateFiles[path]
get_note_hash(st, note_id) == Get(st.notes, note_id)
update_note_hash_whole(st, note_id, new_hash) ==
    [st EXCEPT !.notes = Put(<< >>, note_id, new_hash)]
update_note_hash(st, note_id, new_hash) ==
    [st EXCEPT !.notes = Put(st.notes, note_id, new_hash)]
get_model_hash(st, model_name) == Get(st.models, model_name)
update_model_hash(st, model_name, new_hash) ==
    [st EXCEPT !.models = Put(st.models, model_name, new_hash)]

\* ------------------------------------------------------------------ main.py
DbPaths == {"profile_db", "project_db"}
\* sync: project mode passes config_path.parent / ".anki_vibe.db" (main.py:187,194),
\* legacy mode leaves db_path None, the profile store (sync_service.py:24-25).
SyncDbPath(m) == IF m = "project" THEN "project_db" ELSE "profile_db"
\* pull: both modes construct PullService(target_profile, adapter) with no db_path
\* (main.py:101,130), the profile store (pull_service.py:42-43).
PullDbPath(m) == "profile_db"
\* An exception leaves the service call: project mode prints it and raises
\* typer.Exit(code=1) (main.py:106-108, 203-206), legacy mode prints it and
\* returns (main.py:136-138, 230-232).
ExitOnError(m) == IF m = "project" THEN 1 ELSE 0
\* _resolve_profile raises typer.Exit(code=1) (main.py:48): project mode catches
\* it with the other exceptions and exits 1 (96, 106-108, 184, 203-206), legacy
\* mode catches it and returns (111-114, 209-212).
ExitNoProfile(m) == IF m = "project" THEN 1 ELSE 0
\* said: what main.py printed last, "completed" (lines 104, 133, 200, 228) or
\* "error" (lines 46, 107, 138, 205, 232).
Ended(code, why, said) == outcome' = [exit |-> code, cause |-> why, said |-> said]

\* -------------------------------------------------------------------- Init
Note(id, c) == [id |-> id, deck |-> c.deck, tags |-> c.tags, fields |-> c.fields]
SeqsUpTo(S, n) == UNION {[1..k -> S] : k \in 0..n}
\* No command has ended yet; no DatabaseManager has been constructed.
NoOutcome == [exit |-> 0, cause |-> "none", said |-> "none"]
NoHandle == [h |-> 0, open |-> FALSE, last |-> 0]
NoStore ==
    /\ _connection = NoHandle /\ _lock = 0
    /\ note_states = {} /\ model_states = {}
    /\ threads = << >> /\ asked = << >>
NoLocals ==
    /\ notes_data = << >> /\ to_create = << >> /\ to_create_indices = << >>
    /\ batch_actions = << >> /\ dirty_note_hashes = << >> /\ new_ids = << >>
    /\ chunk_i = 0
NoPool == wdone = << >> /\ listing = << >>
NoHashing == hashIn = << >> /\ hashOut = << >>
RunReset ==
    /\ createCalls = 0 /\ submitted = << >> /\ failedChunk = 0 /\ rejected = {}
    /\ styleCalls = 0 /\ hash0 = << >> /\ runOk = TRUE
    /\ sibs = << >> /\ fileWrites = 0 /\ created = << >>
    /\ outcome = NoOutcome
NoRun == RunReset /\ NoStore /\ NoPool /\ NoHashing
NoPrev ==
    /\ prevOp = "none" /\ prevOk = FALSE /\ prevNull = {} /\ prevGot = {}
    /\ prevFailed = {} /\ prevWrote = FALSE

\* The record the remote may already hold, and what a folder synced or pulled
\* earlier holds for it.
RemoteNote == [deck |-> "D2", tags |-> <<"a">>, fields |-> [Front |-> "x"]]
StaleHash == compute_hash(<<"D2", <<"a">>, [Front |-> "y"]>>)
StoredNotes(rn) ==
    IF rn = << >> THEN {<< >>}
    ELSE {<< >>, <<compute_hash(<<"D2", <<"a">>, [Front |-> "x"]>>)>>, <<StaleHash>>}
LocalRecords(rn) ==
    {Note(NULL, c) : c \in NewContents} \cup {Note(id, rn[id]) : id \in DOMAIN rn}
UniqueIds(nd) ==
    \A i, j \in DOMAIN nd : (i # j /\ nd[i].id # NULL) => nd[i].id # nd[j].id

\* A folder between two commands: records the user wrote (no identifier) and
\* records created or pulled earlier (identifier known to the remote, hash
\* stored, stale or lost), identifiers unique.
Folder(styles, names) ==
    /\ mode \in Modes
    /\ remoteNotes \in {<< >>, <<RemoteNote>>}
    /\ nextId = Len(remoteNotes) + 1
    /\ remoteCss \in styles
    /\ remoteTemplates \in {[n \in {t} |-> <<"q", "a">>] : t \in names}
    /\ notesExists \in BOOLEAN
    /\ notesFile \in {nd \in SeqsUpTo(LocalRecords(remoteNotes), MaxNotes) : UniqueIds(nd)}
    /\ (~notesExists => notesFile = << >>)
    /\ cssExists = FALSE /\ cssFile = ""
    /\ tplFiles = << >>
    /\ \E sn \in StoredNotes(remoteNotes) :
         stateFiles = [p \in DbPaths |->
                         IF p = SyncDbPath(mode) THEN [models |-> << >>, notes |-> sn]
                         ELSE EmptyState]
    /\ pc = "idle"
    /\ state = EmptyState
    /\ NoLocals /\ NoRun /\ NoPrev
    /\ runs = 0 /\ edits = 0

\* The root holds the folder of the collection, the folders in extras that
\* exist, and the run has up to n sibling collections.
SiblingFolder(k) == sanitize_filename(SiblingModels[k])
Tree(n, extras) ==
    /\ targets \in 0..Min(n, Len(SiblingModels))
    /\ dirs \in {{sanitize_filename(ModelName)} \cup x : x \in SUBSET extras}
    /\ rmFailed = {}
Config(vals) == configOk \in vals /\ (mode = "project" => configOk)
Alone == Tree(0, {}) /\ Config({TRUE})

Init == Folder({"c"}, {"Card 1"}) /\ Alone
\* The same folders, against every remote style and template name.
InitPull == Folder(CssValues, TemplateNames) /\ Alone

\* ------------------------------------------------- services/sync_service.py
Indices(s) == [i \in 1..Len(s) |-> i]

\* sync: SyncService.__init__ loads the state of its store; push_project /
\* push_all_changes then take the folder.
SyncStart ==
    /\ pc = "idle" /\ runs < MaxRuns
    /\ runs' = runs + 1
    /\ state' = _load_state(SyncDbPath(mode))
    /\ pc' = "structure"
    /\ createCalls' = 0 /\ submitted' = << >> /\ failedChunk' = 0 /\ rejected' = {}
    /\ styleCalls' = 0 /\ hash0' = << >> /\ runOk' = TRUE
    /\ sibs' = << >> /\ fileWrites' = 0
    /\ UNCHANGED <<mode, sideVars, outcome, configOk, treeVars, created, remoteVars, fileVars, stateFiles,
                   localVars, edits, prevVars>>

\* _sync_model_structure, lines 118-142: the style text and the templates read
\* from the folder, and their hash.
LocalCssDefault == IF cssExists THEN cssFile ELSE "c"
LocalCss == IF cssExists THEN cssFile ELSE ""
LocalTemplates ==
    [n \in {card_name(st) : st \in DOMAIN tplFiles} |->
        LET st == CHOOSE x \in DOMAIN tplFiles : card_name(x) = n
        IN [Front |-> tplFiles[st][1], Back |-> tplFiles[st][2]]]
LocalModelHash == compute_model_hash(LocalCss, LocalTemplates)

StructureChangedStoredOnly(new_hash, old_hash) ==
    old_hash # None /\ new_hash # old_hash
StructureChanged(new_hash, old_hash) == new_hash # old_hash

\* push_all_changes lines 83-86: _get_model_name_from_config gives "" when
\* config.yaml is missing, unreadable or has no model name, and the folder is
\* passed over; push_project takes the name from the target (line 56).
ResolvedAlways(m) == TRUE
Resolved(m) == m = "project" \/ configOk

\* The command is over (normally or by an exception that left push_project):
\* the process and its in-memory state are gone.
EndSync(ok, nulls, got, failed) ==
    /\ pc' = "idle"
    /\ state' = EmptyState
    /\ notes_data' = << >> /\ to_create' = << >> /\ to_create_indices' = << >>
    /\ batch_actions' = << >> /\ dirty_note_hashes' = << >> /\ new_ids' = << >>
    /\ chunk_i' = 0
    /\ prevOp' = "sync" /\ prevOk' = ok /\ prevNull' = nulls /\ prevGot' = got
    /\ prevFailed' = failed
    /\ prevWrote' = (createCalls > 0 \/ submitted # << >>)

\* _sync_model_structure, lines 143-150, hash unchanged: nothing is sent.
StructureSame ==
    /\ pc = "structure" /\ Resolved(mode)
    /\ ~StructureChanged(LocalModelHash, get_model_hash(state, ModelName))
    /\ pc' = "classify"
    /\ UNCHANGED <<mode, sideVars, outcome, configOk, treeVars, sibs, fileWrites, created, remoteVars, fileVars, stateFiles, state, localVars,
                   runs, edits, runVars, prevVars>>

\* hash changed, update_model_styling returned: the hash is stored.
StructurePush ==
    /\ pc = "structure" /\ Resolved(mode)
    /\ StructureChanged(LocalModelHash, get_model_hash(state, ModelName))
    /\ remoteCss' = LocalCss
    /\ styleCalls' = styleCalls + 1
    /\ state' = update_model_hash(state, ModelName, LocalModelHash)
    /\ pc' = "classify"
    /\ UNCHANGED <<mode, sideVars, outcome, configOk, treeVars, sibs, fileWrites, created, remoteNotes, nextId, remoteTemplates, fileVars, stateFiles,
                   localVars, runs, edits, createCalls, submitted, failedChunk,
                   rejected, hash0, runOk, prevVars>>

\* hash changed, update_model_styling raised: nothing catches it in
\* _sync_target_folder or push_project, so the command ends without save_state.
StructurePushFail ==
    /\ pc = "structure" /\ Resolved(mode)
    /\ StructureChanged(LocalModelHash, get_model_hash(state, ModelName))
    /\ styleCalls' = styleCalls + 1
    /\ runOk' = FALSE
    /\ EndSync(FALSE, {}, {}, {})
    /\ Ended(ExitOnError(mode), "remote", "error")
    /\ UNCHANGED <<mode, sideVars, configOk, treeVars, sibs, fileWrites, created, remoteVars, fileVars, stateFiles, runs, edits,
                   createCalls, submitted, failedChunk, rejected, hash0>>

\* push_all_changes lines 84-86: no model name, the loop goes on to the next
\* folder without a call for this one.
SyncSkipUnresolved ==
    /\ pc = "structure" /\ ~Resolved(mode)
    /\ pc' = "save"
    /\ UNCHANGED <<mode, sideVars, outcome, configOk, treeVars, sibs, fileWrites, created,
                   remoteVars, fileVars, stateFiles, state, localVars, runs, edits,
                   runVars, prevVars>>

\* main.py lines 96/184 and 111-114/209-212: no profile is given, configured or
\* detected; the command ends before a service is constructed.
NoProfile ==
    /\ pc = "idle" /\ runs < MaxRuns
    /\ runs' = runs + 1
    /\ Ended(ExitNoProfile(mode), "noprofile", "error")
    /\ prevOp' = "none" /\ prevOk' = FALSE /\ prevNull' = {} /\ prevGot' = {}
    /\ prevFailed' = {} /\ prevWrote' = FALSE
    /\ UNCHANGED <<mode, sideVars, configOk, treeVars, sibs, fileWrites, created,
                   remoteVars, fileVars, stateFiles, pc, state, localVars, edits,
                   runVars>>

\* _sync_notes, lines 171-208: classification.
note_hash(note) == compute_note_hash(note.deck, note.tags, note.fields)
IsNewOrUnknown(note) == note.id = NULL \/ get_note_hash(state, note.id) = None
IsNew(note) == note.id = NULL
IsDirtyStoredOnly(st, note) ==
    /\ get_note_hash(st, note.id) # None
    /\ note_hash(note) # get_note_hash(st, note.id)
IsDirty(st, note) == note_hash(note) # get_note_hash(st, note.id)
CreateIndices(nd) == SelectSeq(Indices(nd), LAMBDA i : IsNew(nd[i]))
DirtyIndices(nd, st) ==
    SelectSeq(Indices(nd), LAMBDA i : ~IsNew(nd[i]) /\ IsDirty(st, nd[i]))
anki_note(note) ==
    [deckName |-> note.deck, modelName |-> ModelName, fields |-> note.fields,
     tags |-> note.tags]
create_update_fields_action(note_id, fields) ==
    [action |-> "updateNoteFields", note |-> note_id, payload |-> fields]
create_delete_action(note_id, tags) ==
    [action |-> "deleteNotes", note |-> note_id, payload |-> tags]
create_update_tags_action(note_id, tags) ==
    [action |-> "updateNoteTags", note |-> note_id, payload |-> tags]
BatchActionsFieldsOnly(nd, st) ==
    LET d == DirtyIndices(nd, st)
    IN [k \in 1..Len(d) |-> create_update_fields_action(nd[d[k]].id, nd[d[k]].fields)]
BatchActions(nd, st) ==
    LET d == DirtyIndices(nd, st)
    IN [k \in 1..(2 * Len(d)) |->
          LET note == nd[d[(k + 1) \div 2]]
          IN IF k % 2 = 1 THEN create_update_fields_action(note.id, note.fields)
             ELSE create_update_tags_action(note.id, note.tags)]
\* dict assignment in file order: the last record of an id wins.
DirtyNoteHashes(nd, st) ==
    LET d == DirtyIndices(nd, st)
        ix == Range(d)
    IN [id \in {nd[i].id : i \in ix} |->
          note_hash(nd[SetMax({i \in ix : nd[i].id = id})])]

\* _sync_notes, lines 154-156: no notes.yaml, nothing to do.
SyncNoFile ==
    /\ pc = "classify" /\ ~notesExists
    /\ pc' = "save"
    /\ hash0' = state.notes
    /\ UNCHANGED <<mode, sideVars, outcome, configOk, treeVars, sibs, fileWrites, created, remoteVars, fileVars, stateFiles, state, localVars,
                   runs, edits, createCalls, submitted, failedChunk, rejected,
                   styleCalls, runOk, prevVars>>

SyncClassify ==
    /\ pc = "classify" /\ notesExists
    /\ notes_data' = notesFile
    /\ to_create_indices' = CreateIndices(notesFile)
    /\ to_create' = [k \in DOMAIN CreateIndices(notesFile) |->
                        anki_note(notesFile[CreateIndices(notesFile)[k]])]
    /\ batch_actions' = BatchActions(notesFile, state)
    /\ dirty_note_hashes' = DirtyNoteHashes(notesFile, state)
    /\ new_ids' = << >> /\ chunk_i' = 0
    /\ hash0' = state.notes
    /\ pc' = "create"
    /\ UNCHANGED <<mode, sideVars, outcome, configOk, treeVars, sibs, fileWrites, created, remoteVars, fileVars, stateFiles, state, runs, edits,
                   createCalls, submitted, failedChunk, rejected, styleCalls,
                   runOk, prevVars>>

\* lines 211: nothing to create.
CreateSkip ==
    /\ pc = "create" /\ to_create = << >>
    /\ pc' = "update"
    /\ UNCHANGED <<mode, sideVars, outcome, configOk, treeVars, sibs, fileWrites, created, remoteVars, fileVars, stateFiles, state, localVars,
                   runs, edits, runVars, prevVars>>

\* addNotes answers: accepted[i] tells whether the i-th note got an identifier
\* (fresh, in input order) or null.
Answer(accepted, first) ==
    [i \in DOMAIN accepted |->
        IF accepted[i]
        THEN first + Cardinality({j \in 1..(i - 1) : accepted[j]})
        ELSE NULL]

\* lines 217-225: identifiers written back by position, hash of the payload stored.
BackAssignIndexByPosition(indices, i) == i
BackAssignIndex(indices, i) == indices[i]
BackAssign(nd, indices, ids) ==
    [x \in DOMAIN nd |->
        LET hit == {i \in DOMAIN ids : ids[i] # NULL /\ BackAssignIndex(indices, i) = x}
        IN IF hit = {} THEN nd[x] ELSE [nd[x] EXCEPT !.id = ids[SetMax(hit)]]]
payload_hash(note_obj) ==
    compute_note_hash(note_obj.deckName, note_obj.tags, note_obj.fields)
StoreCreatedAll(st, payloads, ids) ==
    [st EXCEPT !.notes =
        [x \in DOMAIN st.notes \cup Range(ids) |->
            IF \E i \in DOMAIN ids : ids[i] = x
            THEN payload_hash(payloads[SetMax({i \in DOMAIN ids : ids[i] = x})])
            ELSE st.notes[x]]]
StoreCreated(st, payloads, ids) ==
    LET got == {i \in DOMAIN ids : ids[i] # NULL}
    IN [st EXCEPT !.notes =
          [x \in DOMAIN st.notes \cup {ids[i] : i \in got} |->
              IF \E i \in got : ids[i] = x
              THEN payload_hash(payloads[SetMax({i \in got : ids[i] = x})])
              ELSE st.notes[x]]]

\* History: one more remote note exists for each record of idx.
CountCreated(c, idx) ==
    [x \in DOMAIN c \cup idx |-> (IF x \in DOMAIN c THEN c[x] ELSE 0)
                                  + (IF x \in idx THEN 1 ELSE 0)]
CreateNotes ==
    /\ pc = "create" /\ to_create # << >>
    /\ \E accepted \in [DOMAIN to_create -> BOOLEAN] :
         LET ids == Answer(accepted, nextId)
             got == {i \in DOMAIN ids : ids[i] # NULL}
         IN /\ new_ids' = ids
            /\ nextId' = nextId + Cardinality(got)
            /\ remoteNotes' =
                 [x \in DOMAIN remoteNotes \cup {ids[i] : i \in got} |->
                    IF x \in DOMAIN remoteNotes THEN remoteNotes[x]
                    ELSE LET i == CHOOSE j \in got : ids[j] = x
                         IN [deck |-> to_create[i].deckName, tags |-> to_create[i].tags,
                             fields |-> to_create[i].fields]]
            /\ notes_data' = BackAssign(notes_data, to_create_indices, ids)
            /\ state' = StoreCreated(state, to_create, ids)
            /\ runOk' = (runOk /\ got = DOMAIN ids)
            /\ created' = CountCreated(created, {to_create_indices[i] : i \in got})
    /\ createCalls' = createCalls + 1
    /\ pc' = "update"
    /\ UNCHANGED <<mode, sideVars, outcome, configOk, treeVars, sibs, fileWrites, remoteCss, remoteTemplates, fileVars, stateFiles, to_create,
                   to_create_indices, batch_actions, dirty_note_hashes, chunk_i,
                   runs, edits, submitted, failedChunk, rejected, styleCalls,
                   hash0, prevVars>>

\* lines 226-227: add_notes raised; logged, the pass goes on.
CreateFailAborts ==
    /\ pc = "create" /\ to_create # << >>
    /\ createCalls' = createCalls + 1
    /\ runOk' = FALSE
    /\ pc' = "write"
    /\ UNCHANGED <<mode, sideVars, outcome, configOk, treeVars, sibs, fileWrites, created, remoteVars, fileVars,
                   stateFiles, state, localVars, runs, edits, submitted, failedChunk,
                   rejected, styleCalls, hash0, prevVars>>
CreateFail ==
    /\ pc = "create" /\ to_create # << >>
    /\ createCalls' = createCalls + 1
    /\ runOk' = FALSE
    /\ pc' = "update"
    /\ UNCHANGED <<mode, sideVars, outcome, configOk, treeVars, sibs, fileWrites, created, remoteVars, fileVars, stateFiles, state, localVars,
                   runs, edits, submitted, failedChunk, rejected, styleCalls,
                   hash0, prevVars>>

\* lines 233-237: the i-th slice of the pending sub-operations (i from 0).
ChunkOdd(actions, i) ==
    SubSeq(actions, i * chunk_size + 1, Min((i + 1) * chunk_size + 1, Len(actions)))
ChunkShort(actions, i) ==
    SubSeq(actions, i * chunk_size + 1, Min((i + 1) * chunk_size - 1, Len(actions)))
Chunk(actions, i) ==
    SubSeq(actions, i * chunk_size + 1, Min((i + 1) * chunk_size, Len(actions)))
ChunksLeft == chunk_i * chunk_size < Len(batch_actions)

\* What the remote does with the sub-operations of a chunk it accepted; the
\* entry at position e (if any) was rejected and changes nothing.  A
\* deleteNotes sub-operation would remove the note.
ApplyChunk(rn, chunk, e) ==
    [id \in {x \in DOMAIN rn : ~\E k \in DOMAIN chunk :
                 k # e /\ chunk[k].note = x /\ chunk[k].action = "deleteNotes"} |->
        LET fk == {k \in DOMAIN chunk : k # e /\ chunk[k].note = id
                                        /\ chunk[k].action = "updateNoteFields"}
            tk == {k \in DOMAIN chunk : k # e /\ chunk[k].note = id
                                        /\ chunk[k].action = "updateNoteTags"}
        IN [deck |-> rn[id].deck,
            fields |-> IF fk = {} THEN rn[id].fields ELSE chunk[SetMax(fk)].payload,
            tags |-> IF tk = {} THEN rn[id].tags ELSE chunk[SetMax(tk)].payload]]

\* lines 240-241: every chunk returned; the new hashes are stored.
StoreDirtyNothing(st, dirty) == st
StoreDirty(st, dirty) ==
    [st EXCEPT !.notes =
        [x \in DOMAIN st.notes \cup DOMAIN dirty |->
            IF x \in DOMAIN dirty THEN dirty[x] ELSE st.notes[x]]]

\* lines 235-237: the loop body stores nothing after a chunk returned; the
\* hashes wait for the end of the loop.
AfterChunkStores(st, chunk, dirty) ==
    [st EXCEPT !.notes =
        [x \in DOMAIN st.notes \cup {a.note : a \in Range(chunk)} |->
            IF \E a \in Range(chunk) : a.note = x THEN dirty[x] ELSE st.notes[x]]]
AfterChunk(st, chunk, dirty) == st

\* line 230: nothing to update.
UpdateSkip ==
    /\ pc = "update" /\ batch_actions = << >>
    /\ pc' = "write"
    /\ UNCHANGED <<mode, sideVars, outcome, configOk, treeVars, sibs, fileWrites, created, remoteVars, fileVars, stateFiles, state, localVars,
                   runs, edits, runVars, prevVars>>

\* line 237: multi returned for the next chunk; its result list is dropped.  The
\* list may carry an error entry (position e) for a sub-operation.
MultiChunk ==
    /\ pc = "update" /\ batch_actions # << >> /\ ChunksLeft
    /\ LET chunk == Chunk(batch_actions, chunk_i)
       IN /\ submitted' = Append(submitted, chunk)
          /\ \E e \in 0..Min(Len(chunk), MaxErrPos) :
               /\ rejected' = IF e = 0 THEN rejected ELSE rejected \cup {chunk[e].note}
               /\ remoteNotes' = ApplyChunk(remoteNotes, chunk, e)
          /\ state' = AfterChunk(state, chunk, dirty_note_hashes)
    /\ chunk_i' = chunk_i + 1
    /\ UNCHANGED <<mode, sideVars, outcome, configOk, treeVars, sibs, fileWrites, created, nextId, remoteCss, remoteTemplates, fileVars, stateFiles,
                   pc, notes_data, to_create, to_create_indices,
                   batch_actions, dirty_note_hashes, new_ids, runs, edits,
                   createCalls, failedChunk, styleCalls, hash0, runOk, prevVars>>

\* lines 243-244: multi raised for the next chunk; the loop and the hash update
\* are left.
MultiFailStores ==
    /\ pc = "update" /\ batch_actions # << >> /\ ChunksLeft
    /\ submitted' = Append(submitted, Chunk(batch_actions, chunk_i))
    /\ failedChunk' = chunk_i + 1
    /\ chunk_i' = chunk_i + 1
    /\ runOk' = FALSE
    /\ state' = StoreDirty(state, dirty_note_hashes)
    /\ pc' = "write"
    /\ UNCHANGED <<mode, sideVars, outcome, configOk, treeVars, sibs, fileWrites, created, remoteVars, fileVars, stateFiles, notes_data,
                   to_create, to_create_indices, batch_actions, dirty_note_hashes,
                   new_ids, runs, edits, createCalls, rejected, styleCalls, hash0,
                   prevVars>>
MultiFail ==
    /\ pc = "update" /\ batch_actions # << >> /\ ChunksLeft
    /\ submitted' = Append(submitted, Chunk(batch_actions, chunk_i))
    /\ failedChunk' = chunk_i + 1
    /\ chunk_i' = chunk_i + 1
    /\ runOk' = FALSE
    /\ pc' = "write"
    /\ UNCHANGED <<mode, sideVars, outcome, configOk, treeVars, sibs, fileWrites, created, remoteVars, fileVars, stateFiles, state, notes_data,
                   to_create, to_create_indices, batch_actions, dirty_note_hashes,
                   new_ids, runs, edits, createCalls, rejected, styleCalls, hash0,
                   prevVars>>

\* lines 240-241, after the loop.
UpdateHashes ==
    /\ pc = "update" /\ batch_actions # << >> /\ ~ChunksLeft
    /\ state' = StoreDirty(state, dirty_note_hashes)
    /\ pc' = "write"
    /\ UNCHANGED <<mode, sideVars, outcome, configOk, treeVars, sibs, fileWrites, created, remoteVars, fileVars, stateFiles, localVars, runs, edits,
                   runVars, prevVars>>

\* lines 247-249: notes.yaml is dumped again when there were records to create.
MustWrite(candidates) == candidates # << >>
WriteFileKnownOnly ==
    /\ pc = "write" /\ MustWrite(to_create)
    /\ notesFile' = SelectSeq(notes_data, LAMBDA n : n.id # NULL)
    /\ fileWrites' = fileWrites + 1
    /\ pc' = "save"
    /\ UNCHANGED <<mode, sideVars, outcome, configOk, treeVars, sibs, created, remoteVars, notesExists, cssExists,
                   cssFile, tplFiles, stateFiles, state, localVars, runs, edits,
                   runVars, prevVars>>
WriteFile ==
    /\ pc = "write" /\ MustWrite(to_create)
    /\ notesFile' = notes_data
    /\ fileWrites' = fileWrites + 1
    /\ pc' = "save"
    /\ UNCHANGED <<mode, sideVars, outcome, configOk, treeVars, sibs, created, remoteVars, notesExists, cssExists, cssFile, tplFiles,
                   stateFiles, state, localVars, runs, edits, runVars, prevVars>>
WriteSkip ==
    /\ pc = "write" /\ ~MustWrite(to_create)
    /\ pc' = "save"
    /\ UNCHANGED <<mode, sideVars, outcome, configOk, treeVars, sibs, fileWrites, created, remoteVars, fileVars, stateFiles, state, localVars,
                   runs, edits, runVars, prevVars>>

NullIndices ==
    {to_create_indices[i] : i \in {j \in DOMAIN new_ids : new_ids[j] = NULL}}
GotIndices ==
    {to_create_indices[i] : i \in {j \in DOMAIN new_ids : new_ids[j] # NULL}}
FailedIds ==
    IF failedChunk = 0 THEN {} ELSE {a.note : a \in Range(submitted[failedChunk])}

\* push_project line 59 / push_all_changes line 91: save_state writes the file.
SaveState ==
    /\ pc = "save" /\ Len(sibs) = targets
    /\ stateFiles' = [stateFiles EXCEPT ![SyncDbPath(mode)] = state]
    /\ EndSync(runOk, NullIndices, GotIndices, FailedIds)
    /\ Ended(0, "none", "completed")
    /\ UNCHANGED <<mode, sideVars, configOk, treeVars, sibs, fileWrites, created, remoteVars, fileVars, runs, edits, runVars>>
\* state_manager.py lines 33-34: the write failed, the error is logged only.
SaveStateFail ==
    /\ pc = "save" /\ Len(sibs) = targets
    /\ EndSync(FALSE, NullIndices, GotIndices, FailedIds)
    /\ Ended(0, "store", "completed")
    /\ UNCHANGED <<mode, sideVars, configOk, treeVars, sibs, fileWrites, created, remoteVars, fileVars, stateFiles, runs, edits, runVars>>

\* The process stops in the middle of a sync command (killed, or an exception
\* that nothing catches such as a failed open of notes.yaml at line 248): what
\* was sent and written stays, the in-memory state and the locals are lost and
\* save_state is not reached.
Interrupt ==
    /\ pc \in {"structure", "classify", "create", "update", "write", "save"}
    /\ runOk' = FALSE
    /\ EndSync(FALSE, {}, {}, {})
    /\ \/ Ended(1, "killed", "none")
       \/ Ended(ExitOnError(mode), "killed", "error")
    /\ UNCHANGED <<mode, sideVars, configOk, treeVars, sibs, fileWrites, created, remoteVars, fileVars,
                   stateFiles, runs, edits, createCalls, submitted, failedChunk,
                   rejected, styleCalls, hash0>>

\* push_project lines 49-57 / push_all_changes lines 82-89: the loop takes a
\* sibling collection, before the collection modelled in detail (pc =
\* "structure") or after it (pc = "save").  A sibling whose folder is missing is
\* skipped; the failures of its create call and update batches are caught in
\* _sync_notes, so it counts as synced.  Its hashes concern other models and
\* other notes and are not kept.
SiblingTurnSync == pc \in {"structure", "save"} /\ Len(sibs) < targets
SyncSibling ==
    /\ SiblingTurnSync
    /\ sibs' = Append(sibs, IF SiblingFolder(Len(sibs) + 1) \in dirs
                            THEN "synced" ELSE "skipped")
    /\ UNCHANGED <<mode, sideVars, outcome, configOk, treeVars, fileWrites, created, remoteVars, fileVars,
                   stateFiles, pc, state, localVars, runs, edits, runVars, prevVars>>
\* update_model_styling raised for the sibling (lines 145-148): nothing catches
\* it, the loop and the command end without save_state.
SyncSiblingFail ==
    /\ SiblingTurnSync
    /\ SiblingFolder(Len(sibs) + 1) \in dirs
    /\ sibs' = Append(sibs, "failed")
    /\ runOk' = FALSE
    /\ EndSync(FALSE, NullIndices, GotIndices, FailedIds)
    /\ Ended(ExitOnError(mode), "remote", "error")
    /\ UNCHANGED <<mode, sideVars, configOk, treeVars, fileWrites, created, remoteVars, fileVars,
                   stateFiles, runs, edits, createCalls, submitted, failedChunk,
                   rejected, styleCalls, hash0>>

\* ------------------------------------------------------------- the user
Edited ==
    /\ edits' = edits + 1
    /\ prevOp' = "none" /\ prevOk' = FALSE /\ prevNull' = {} /\ prevGot' = {}
    /\ prevFailed' = {} /\ prevWrote' = FALSE
    /\ created' = << >>
CanEdit == pc = "idle" /\ edits < MaxEdits

\* One attribute of one record is changed; the identifier stays.
OneChange(note) ==
    {[note EXCEPT !.deck = d] : d \in Decks \ {note.deck}}
    \cup {[note EXCEPT !.tags = t] : t \in TagLists \ {note.tags}}
    \cup {[note EXCEPT !.fields = f] : f \in FieldMaps \ {note.fields}}
EditNote ==
    /\ CanEdit /\ notesExists
    /\ \E i \in DOMAIN notesFile :
         \E n \in OneChange(notesFile[i]) : notesFile' = [notesFile EXCEPT ![i] = n]
    /\ Edited
    /\ UNCHANGED <<mode, sideVars, outcome, configOk, treeVars, sibs, fileWrites, remoteVars, notesExists, cssExists, cssFile, tplFiles,
                   stateFiles, pc, state, localVars, runs, runVars>>
AddNote ==
    /\ CanEdit /\ Len(notesFile) < MaxNotes
    /\ \E c \in NewContents : notesFile' = Append(notesFile, Note(NULL, c))
    /\ notesExists' = TRUE
    /\ Edited
    /\ UNCHANGED <<mode, sideVars, outcome, configOk, treeVars, sibs, fileWrites, remoteVars, cssExists, cssFile, tplFiles, stateFiles, pc,
                   state, localVars, runs, runVars>>
RemoveNote ==
    /\ CanEdit /\ notesExists
    /\ \E i \in DOMAIN notesFile :
         notesFile' = SubSeq(notesFile, 1, i - 1) \o SubSeq(notesFile, i + 1, Len(notesFile))
    /\ Edited
    /\ UNCHANGED <<mode, sideVars, outcome, configOk, treeVars, sibs, fileWrites, remoteVars, notesExists, cssExists, cssFile, tplFiles,
                   stateFiles, pc, state, localVars, runs, runVars>>
EditCss ==
    /\ CanEdit
    /\ \E v \in CssValues :
         /\ ~(cssExists /\ cssFile = v)
         /\ cssFile' = v
    /\ cssExists' = TRUE
    /\ Edited
    /\ UNCHANGED <<mode, sideVars, outcome, configOk, treeVars, sibs, fileWrites, remoteVars, notesExists, notesFile, tplFiles, stateFiles,
                   pc, state, localVars, runs, runVars>>
\* The state file is deleted or damaged between two commands.
LoseState ==
    /\ CanEdit
    /\ \E p \in DbPaths : stateFiles[p] # EmptyState
    /\ stateFiles' = [p \in DbPaths |-> EmptyState]
    /\ Edited
    /\ UNCHANGED <<mode, sideVars, outcome, configOk, treeVars, sibs, fileWrites, remoteVars, fileVars, pc, state, localVars, runs, runVars>>

\* ------------------------------------------------- services/pull_service.py
\* pull: PullService.__init__ loads the state of its store.
PullStart ==
    /\ pc = "idle" /\ runs < MaxRuns
    /\ runs' = runs + 1
    /\ state' = _load_state(PullDbPath(mode))
    /\ pc' = "pull_meta"
    /\ createCalls' = 0 /\ submitted' = << >> /\ failedChunk' = 0 /\ rejected' = {}
    /\ styleCalls' = 0 /\ hash0' = << >> /\ runOk' = TRUE
    /\ sibs' = << >> /\ fileWrites' = 0 /\ rmFailed' = {}
    /\ UNCHANGED <<mode, sideVars, outcome, configOk, targets, dirs, created, remoteVars, fileVars, stateFiles,
                   localVars, edits, prevVars>>

\* _save_model_metadata: style and templates fetched (each fetch may fail and is
\* then skipped), written, and their hash stored.
TemplatesMap(tpls) == [n \in DOMAIN tpls |-> [Front |-> tpls[n][1], Back |-> tpls[n][2]]]
PullMetadata ==
    /\ pc = "pull_meta"
    /\ dirs' = dirs \cup {sanitize_filename(ModelName)}
    /\ \E cssOk \in BOOLEAN, tplOk \in BOOLEAN :
         LET css_content == IF cssOk THEN remoteCss ELSE ""
             templates == IF tplOk THEN remoteTemplates ELSE << >>
         IN /\ cssExists' = (cssExists \/ css_content # "")
            /\ cssFile' = IF css_content # "" THEN css_content ELSE cssFile
            /\ tplFiles' =
                 [st \in DOMAIN tplFiles \cup {safe_tpl_name(n) : n \in DOMAIN templates} |->
                    IF \E n \in DOMAIN templates : safe_tpl_name(n) = st
                    THEN templates[CHOOSE n \in DOMAIN templates : safe_tpl_name(n) = st]
                    ELSE tplFiles[st]]
            /\ state' = update_model_hash(state, ModelName,
                            compute_model_hash(css_content, TemplatesMap(templates)))
            /\ runOk' = (cssOk /\ tplOk)
    /\ pc' = "pull_notes"
    /\ configOk' = TRUE
    /\ UNCHANGED <<mode, sideVars, outcome, targets, rmFailed, sibs, fileWrites, created, remoteVars, notesExists, notesFile, stateFiles, localVars,
                   runs, edits, createCalls, submitted, failedChunk, rejected,
                   styleCalls, hash0, prevVars>>

\* find_notes: the identifiers matching the query, ascending.
NthId(D, k) == CHOOSE x \in D : Cardinality({y \in D : y <= x}) = k
find_notes == [k \in 1..Cardinality(DOMAIN remoteNotes) |-> NthId(DOMAIN remoteNotes, k)]
\* lines 240-271: one entry per note; the deck is the first card's deck, or
\* "Unknown" when the card lookup failed.
PulledNotes(cardsOk) ==
    [k \in DOMAIN find_notes |->
        LET id == find_notes[k]
        IN [id |-> id,
            deck |-> IF cardsOk THEN remoteNotes[id].deck ELSE "Unknown",
            tags |-> remoteNotes[id].tags,
            fields |-> remoteNotes[id].fields]]
SeedHashes(st, pulled) ==
    [st EXCEPT !.notes =
        [x \in DOMAIN st.notes \cup {pulled[k].id : k \in DOMAIN pulled} |->
            IF \E k \in DOMAIN pulled : pulled[k].id = x
            THEN note_hash(pulled[SetMax({k \in DOMAIN pulled : pulled[k].id = x})])
            ELSE st.notes[x]]]

\* _save_notes_by_query, lines 217-220: no remote note, a stale notes.yaml goes.
PullNoNotesKeepsFile ==
    /\ pc = "pull_notes" /\ find_notes = << >>
    /\ created' = << >>
    /\ pc' = "pull_end"
    /\ UNCHANGED <<mode, sideVars, outcome, configOk, treeVars, sibs, fileWrites, remoteVars, fileVars, stateFiles,
                   state, localVars, runs, edits, runVars, prevVars>>
PullNoNotes ==
    /\ pc = "pull_notes" /\ find_notes = << >>
    /\ notesExists' = FALSE /\ notesFile' = << >>
    /\ created' = << >>
    /\ pc' = "pull_end"
    /\ UNCHANGED <<mode, sideVars, outcome, configOk, treeVars, sibs, fileWrites, remoteVars, cssExists, cssFile, tplFiles, stateFiles,
                   state, localVars, runs, edits, runVars, prevVars>>
\* lines 222-275: hashes seeded, notes.yaml written.
PullNotes ==
    /\ pc = "pull_notes" /\ find_notes # << >>
    /\ \E cardsOk \in BOOLEAN :
         /\ state' = SeedHashes(state, PulledNotes(cardsOk))
         /\ notesFile' = PulledNotes(cardsOk)
         /\ runOk' = (runOk /\ cardsOk)
    /\ notesExists' = TRUE
    /\ created' = << >>
    /\ pc' = "pull_end"
    /\ UNCHANGED <<mode, sideVars, outcome, configOk, treeVars, sibs, fileWrites, remoteVars, cssExists, cssFile, tplFiles, stateFiles,
                   localVars, runs, edits, createCalls, submitted, failedChunk,
                   rejected, styleCalls, hash0, prevVars>>
\* find_notes or get_notes_info raised: the collection is given up
\* (pull_project lines 79-81, pull_all_models lines 124-126).
PullNotesFailAborts ==
    /\ pc = "pull_notes"
    /\ runOk' = FALSE
    /\ pc' = "idle"
    /\ state' = EmptyState
    /\ prevOp' = "pull" /\ prevOk' = FALSE /\ prevNull' = {} /\ prevGot' = {}
    /\ prevFailed' = {} /\ prevWrote' = FALSE
    /\ Ended(ExitOnError(mode), "remote", "error")
    /\ UNCHANGED <<mode, sideVars, configOk, treeVars, sibs, fileWrites, created, remoteVars, fileVars,
                   stateFiles, localVars, runs, edits, createCalls, submitted,
                   failedChunk, rejected, styleCalls, hash0>>
PullNotesFail ==
    /\ pc = "pull_notes"
    /\ runOk' = FALSE
    /\ pc' = "pull_end"
    /\ UNCHANGED <<mode, sideVars, outcome, configOk, treeVars, sibs, fileWrites, created, remoteVars, fileVars, stateFiles, state, localVars, runs,
                   edits, createCalls, submitted, failedChunk, rejected, styleCalls,
                   hash0, prevVars>>
\* pull_all_models lines 87-92: get_model_names raised; the command returns
\* before any collection is taken and before the cleanup.
PullListFail ==
    /\ pc = "pull_meta" /\ mode = "legacy" /\ sibs = << >>
    /\ runOk' = FALSE
    /\ pc' = "idle"
    /\ state' = EmptyState
    /\ prevOp' = "nolist" /\ prevOk' = FALSE /\ prevNull' = {} /\ prevGot' = {}
    /\ prevFailed' = {} /\ prevWrote' = FALSE
    /\ Ended(0, "remote", "completed")
    /\ UNCHANGED <<mode, sideVars, configOk, treeVars, sibs, fileWrites, created, remoteVars, fileVars,
                   stateFiles, localVars, runs, edits, createCalls, submitted,
                   failedChunk, rejected, styleCalls, hash0>>

\* A sibling collection is pulled: by the loop of pull_project before or after
\* the collection modelled in detail (lines 66-83), by another thread of the
\* pool of pull_all_models at any time (lines 112-128).  Its folder is made
\* first (lines 71, 155); a failure of its fetches is caught (lines 79-81,
\* 124-126).
SiblingTurnPull ==
    /\ Len(sibs) < targets
    /\ \/ pc \in {"pull_meta", "pull_end"}
       \/ pc = "pull_notes" /\ mode = "legacy"
PullSibling ==
    /\ SiblingTurnPull
    /\ sibs' = Append(sibs, "pulled")
    /\ dirs' = dirs \cup {SiblingFolder(Len(sibs) + 1)}
    /\ UNCHANGED <<mode, sideVars, outcome, configOk, targets, rmFailed, fileWrites, created, remoteVars, fileVars,
                   stateFiles, pc, state, localVars, runs, edits, runVars, prevVars>>
PullSiblingFail ==
    /\ SiblingTurnPull
    /\ sibs' = Append(sibs, "failed")
    /\ dirs' = dirs \cup {SiblingFolder(Len(sibs) + 1)}
    /\ UNCHANGED <<mode, sideVars, outcome, configOk, targets, rmFailed, fileWrites, created, remoteVars, fileVars,
                   stateFiles, pc, state, localVars, runs, edits, runVars, prevVars>>

\* main.py lines 92-131: only the whole-profile pull (pull_all_models, line 130)
\* ends with _cleanup_stale_models; pull_project has none.
CleansUpAlways(m) == TRUE
CleansUp(m) == m = "legacy"
\* pull_all_models lines 114-116: the folder of every listed model.
ActiveFoldersPulledOnly ==
    {sanitize_filename(ModelName)} \cup
    {SiblingFolder(k) : k \in {j \in DOMAIN sibs : sibs[j] = "pulled"}}
ActiveFolders ==
    {sanitize_filename(ModelName)} \cup {SiblingFolder(k) : k \in 1..targets}
\* _cleanup_stale_models lines 134-136.
StaleFoldersNone(existing_folders, active_folder_names) == {}
StaleFolders(existing_folders, active_folder_names) ==
    {f \in existing_folders \ active_folder_names : ~startswith_hidden(f)}
\* lines 138-150: each stale folder is removed; a removal that raises is logged.
PullCleanup ==
    /\ pc = "pull_end" /\ CleansUp(mode) /\ Len(sibs) = targets
    /\ \E gone \in SUBSET StaleFolders(dirs, ActiveFolders) :
         /\ dirs' = dirs \ gone
         /\ rmFailed' = StaleFolders(dirs, ActiveFolders) \ gone
    /\ pc' = "pull_done"
    /\ UNCHANGED <<mode, sideVars, outcome, configOk, targets, sibs, fileWrites, created, remoteVars, fileVars,
                   stateFiles, state, localVars, runs, edits, runVars, prevVars>>

\* The pull command returns (main.py lines 104-105, 133-134): nothing in
\* pull_service.py or main.py calls save_state, the seeded state goes with the process.
PullEnd ==
    /\ \/ pc = "pull_done"
       \/ pc = "pull_end" /\ ~CleansUp(mode) /\ Len(sibs) = targets
    /\ pc' = "idle"
    /\ state' = EmptyState
    /\ prevOp' = "pull" /\ prevOk' = runOk /\ prevNull' = {} /\ prevGot' = {}
    /\ prevFailed' = {} /\ prevWrote' = FALSE
    /\ Ended(0, "none", "completed")
    /\ UNCHANGED <<mode, sideVars, configOk, treeVars, sibs, fileWrites, created, remoteVars, fileVars, stateFiles, localVars, runs, edits,
                   runVars>>

\* -------------------------------------------------------------------- Next
SyncStep ==
    \/ SyncStart \/ StructureSame \/ StructurePush \/ StructurePushFail
    \/ SyncNoFile \/ SyncClassify
    \/ CreateSkip \/ CreateNotes \/ CreateFail
    \/ UpdateSkip \/ MultiChunk \/ MultiFail \/ UpdateHashes
    \/ WriteFile \/ WriteSkip
    \/ SaveState \/ SaveStateFail
UserStep == EditNote \/ AddNote \/ RemoveNote \/ EditCss \/ LoseState
PullStep ==
    \/ PullStart \/ PullListFail \/ PullMetadata \/ PullNoNotes \/ PullNotes
    \/ PullNotesFail \/ PullCleanup \/ PullEnd

\* Sync commands and the user's edits between them.
Next == SyncStep \/ UserStep
Spec == Init /\ [][Next]_vars

\* Pull and sync commands, nothing edited between them.
NextPull == PullStep \/ SyncStep
SpecPull == InitPull /\ [][NextPull]_vars

\* A large folder whose records all have identifiers (pulled earlier) and whose
\* stored hashes are stale or lost, so that every record is pending an update:
\* 2n sub-operations, below, at and above the chunk size.
BulkSizes == {0, 1, chunk_size \div 2, chunk_size \div 2 + 1, chunk_size, MaxBulk}
InitBulk ==
    /\ mode = "legacy"
    /\ remoteNotes = << >>
    /\ remoteCss = "c"
    /\ remoteTemplates = [n \in {"Card 1"} |-> <<"q", "a">>]
    /\ notesExists = TRUE
    /\ \E n \in BulkSizes :
         /\ notesFile = [i \in 1..n |-> Note(i, RemoteNote)]
         /\ nextId = n + 1
         /\ \E sn \in {<< >>, [i \in 1..n |-> StaleHash]} :
              stateFiles = [p \in DbPaths |-> [models |-> << >>, notes |-> sn]]
    /\ cssExists = FALSE /\ cssFile = ""
    /\ tplFiles = << >>
    /\ pc = "idle"
    /\ state = EmptyState
    /\ NoLocals /\ NoRun /\ NoPrev
    /\ runs = 0 /\ edits = 0
    /\ Alone
NextBulk ==
    \/ SyncStart \/ StructureSame \/ StructurePush \/ SyncClassify
    \/ CreateSkip \/ UpdateSkip \/ MultiChunk \/ MultiFail \/ UpdateHashes
    \/ WriteSkip \/ SaveState
SpecBulk == InitBulk /\ [][NextBulk]_vars

\* Sync commands that may stop at any point, nothing edited between them.
NextCrash == SyncStep \/ Interrupt
SpecCrash == Init /\ [][NextCrash]_vars

\* Sync commands over a project or profile of several collections.
InitTargets ==
    /\ Folder({"c"}, {"Card 1"})
    /\ Tree(MaxTargets, {SiblingFolder(k) : k \in 1..Min(MaxTargets, Len(SiblingModels))})
    /\ Config(BOOLEAN)
NextTargets == SyncStep \/ SyncSibling \/ SyncSiblingFail \/ SyncSkipUnresolved
SpecTargets == InitTargets /\ [][NextTargets]_vars

\* Sync and pull commands that may find no profile to work on.
NextCommands == SyncStep \/ PullStep \/ NoProfile
SpecCommands == Init /\ [][NextCommands]_vars

\* Pull commands over a project or profile of several collections, in a root
\* that holds the folder of a model the remote no longer lists and may hold
\* directories of other tools.
InitFolders ==
    /\ Folder({"c"}, {"Card 1"})
    /\ Tree(MaxTargets, {"Old", ".git", "_media"})
    /\ "Old" \in dirs
    /\ Config({TRUE})
NextFolders == PullStep \/ PullSibling \/ PullSiblingFail
SpecFolders == InitFolders /\ [][NextFolders]_vars

\* --------------------------------------------------------- core/database.py
\* No command runs and the folder is empty: the state around a component that
\* is exercised on its own.
EngineIdle ==
    /\ mode = "legacy"
    /\ remoteNotes = << >> /\ nextId = 1 /\ remoteCss = "c"
    /\ remoteTemplates = [n \in {"Card 1"} |-> <<"q", "a">>]
    /\ notesExists = FALSE /\ notesFile = << >>
    /\ cssExists = FALSE /\ cssFile = "" /\ tplFiles = << >>
    /\ stateFiles = [p \in DbPaths |-> EmptyState]
    /\ pc = "idle" /\ state = EmptyState
    /\ NoLocals /\ RunReset /\ NoPrev
    /\ runs = 0 /\ edits = 0
    /\ Alone
engineVars == <<mode, remoteVars, fileVars, stateFiles, pc, localVars, runs, edits,
                runVars, prevVars, treeVars, sibs, fileWrites, created, outcome,
                configOk>>

Threads == {1, 2}
Namespaces == {"note", "model"}
StoreKeys(ns) == IF ns = "note" THEN {1, 2} ELSE {ModelName}
Hashes == {<<"h1">>, <<"h2">>}
Ops == {"get", "update", "close"}
Table(ns) == IF ns = "note" THEN note_states ELSE model_states

\* SELECT hash ... WHERE key = ? ; row["hash"] if row else None (lines 72-74, 96-98).
select_hash(rows, key) ==
    IF \E r \in rows : r[1] = key
    THEN (CHOOSE r \in rows : r[1] = key)[2] ELSE None
\* INSERT ... ON CONFLICT(key) DO UPDATE SET hash = excluded.hash (lines 80-86, 104-110).
insert_row(rows, key, h) == rows \cup {<<key, h>>}
upsert(rows, key, h) == {r \in rows : r[1] # key} \cup {<<key, h>>}

\* Every method body is inside "with self._lock" (lines 31, 56, 68, 77, 92, 101).
NeedsLockWritesOnly(op) == op # "get"
NeedsLock(op) == TRUE
\* "if self._connection" / "if not self._connection" (lines 57, 69, 93).
HasHandleAlways(c) == TRUE
HasHandle(c) == c.h # 0
close_always(c) == TRUE
close_needed(c) == HasHandle(c)
\* a call on the handle works when it is the handle held and it is open
Usable(conn) == conn # 0 /\ conn = _connection.h /\ _connection.open

IdleThread ==
    [pc |-> "idle", op |-> "none", ns |-> "note", key |-> 1, hash |-> None,
     conn |-> 0, ret |-> None, want |-> None, raised |-> FALSE]
\* the most recent committed set of a key, None if there is none
LastSet(ns, key) ==
    LET at == {i \in DOMAIN asked.sets :
                  asked.sets[i].ns = ns /\ asked.sets[i].key = key}
    IN IF at = {} THEN None ELSE asked.sets[SetMax(at)].hash

\* __init__ (lines 14-18): _init_db has opened the connection and created the
\* tables; the threads are about to share the object.
InitStore ==
    /\ EngineIdle /\ NoPool /\ NoHashing
    /\ _connection = [h |-> 1, open |-> TRUE, last |-> 1]
    /\ _lock = 0
    /\ note_states = {} /\ model_states = {}
    /\ threads = [t \in Threads |-> IdleThread]
    /\ asked = [sets |-> << >>, closes |-> 0, calls |-> 0, shut |-> FALSE]

\* the with block is left: the lock is released and the method returns or raises
Return(t, r, w, err) ==
    /\ threads' = [threads EXCEPT ![t] =
                      [@ EXCEPT !.pc = "idle", !.ret = r, !.want = w, !.raised = err]]
    /\ _lock' = IF _lock = t THEN 0 ELSE _lock

\* A thread calls get_*_hash, update_*_hash or close.
DbCall ==
    \E t \in Threads, op \in Ops, ns \in Namespaces :
      \E key \in StoreKeys(ns), h \in Hashes :
        /\ threads[t].pc = "idle" /\ asked.calls < MaxCalls
        /\ op = "close" => (ns = "note" /\ key = 1)
        /\ op # "update" => h = <<"h1">>
        /\ threads' = [threads EXCEPT ![t] =
                          [IdleThread EXCEPT !.pc = "wait", !.op = op, !.ns = ns,
                                             !.key = key,
                                             !.hash = IF op = "update" THEN h ELSE None]]
        /\ asked' = [asked EXCEPT !.calls = @ + 1]
        /\ UNCHANGED <<engineVars, state, _connection, _lock, note_states,
                       model_states, poolVars, hashIn, hashOut>>
\* with self._lock
DbAcquire ==
    \E t \in Threads :
        /\ threads[t].pc = "wait"
        /\ NeedsLock(threads[t].op) => _lock = 0
        /\ _lock' = IF NeedsLock(threads[t].op) THEN t ELSE _lock
        /\ threads' = [threads EXCEPT ![t].pc =
                          IF threads[t].op = "update" THEN "conn" ELSE "check"]
        /\ UNCHANGED <<engineVars, state, _connection, note_states, model_states,
                       asked, poolVars, hashIn, hashOut>>
\* get_*_hash lines 69, 93: if not self._connection: return None
DbCheckGet ==
    \E t \in Threads :
        /\ threads[t].pc = "check" /\ threads[t].op = "get"
        /\ IF HasHandle(_connection)
           THEN /\ threads' = [threads EXCEPT ![t].pc = "conn"]
                /\ UNCHANGED _lock
           ELSE Return(t, None, LastSet(threads[t].ns, threads[t].key), FALSE)
        /\ UNCHANGED <<engineVars, state, _connection, note_states, model_states,
                       asked, poolVars, hashIn, hashOut>>
\* _get_connection lines 20-27: connect when there is no handle
DbGetConnection ==
    \E t \in Threads :
        /\ threads[t].pc = "conn"
        /\ IF _connection.h = 0
           THEN /\ _connection' = [h |-> _connection.last + 1, open |-> TRUE,
                                    last |-> _connection.last + 1]
                /\ threads' = [threads EXCEPT ![t].pc = "exec",
                                               ![t].conn = _connection.last + 1]
           ELSE /\ threads' = [threads EXCEPT ![t].pc = "exec",
                                               ![t].conn = _connection.h]
                /\ UNCHANGED _connection
        /\ UNCHANGED <<engineVars, state, _lock, note_states, model_states, asked,
                       poolVars, hashIn, hashOut>>
\* get_*_hash lines 71-74, 95-98: execute, fetchone, return
DbSelect ==
    \E t \in Threads :
        /\ threads[t].pc = "exec" /\ threads[t].op = "get"
        /\ IF Usable(threads[t].conn)
           THEN Return(t, select_hash(Table(threads[t].ns), threads[t].key),
                       LastSet(threads[t].ns, threads[t].key), FALSE)
           ELSE Return(t, None, None, TRUE)
        /\ UNCHANGED <<engineVars, state, _connection, note_states, model_states,
                       asked, poolVars, hashIn, hashOut>>
\* update_*_hash lines 79-87, 103-111: execute the upsert and commit.  The same
\* set is made on the StateManager the services use (state_manager.py 40-49).
DbUpsert ==
    \E t \in Threads :
        /\ threads[t].pc = "exec" /\ threads[t].op = "update"
        /\ IF Usable(threads[t].conn)
           THEN /\ IF threads[t].ns = "note"
                   THEN /\ note_states' = upsert(note_states, threads[t].key, threads[t].hash)
                        /\ state' = update_note_hash(state, threads[t].key, threads[t].hash)
                        /\ UNCHANGED model_states
                   ELSE /\ model_states' = upsert(model_states, threads[t].key, threads[t].hash)
                        /\ state' = update_model_hash(state, threads[t].key, threads[t].hash)
                        /\ UNCHANGED note_states
                /\ asked' = [asked EXCEPT !.sets =
                                Append(@, [ns |-> threads[t].ns, key |-> threads[t].key,
                                           hash |-> threads[t].hash,
                                           on |-> threads[t].conn]),
                                          !.shut = FALSE]
                /\ Return(t, None, None, FALSE)
           ELSE /\ Return(t, None, None, TRUE)
                /\ UNCHANGED <<note_states, model_states, state, asked>>
        /\ UNCHANGED <<engineVars, _connection, poolVars, hashIn, hashOut>>
\* close lines 57-58: if self._connection: self._connection.close()
DbCheckClose ==
    \E t \in Threads :
        /\ threads[t].pc = "check" /\ threads[t].op = "close"
        /\ IF close_needed(_connection)
           THEN IF _connection.h = 0
                THEN /\ Return(t, None, None, TRUE)
                     /\ UNCHANGED <<_connection, asked>>
                ELSE /\ _connection' = [_connection EXCEPT !.open = FALSE]
                     /\ threads' = [threads EXCEPT ![t].pc = "exec"]
                     /\ UNCHANGED <<_lock, asked>>
           ELSE /\ Return(t, None, None, FALSE)
                /\ asked' = [asked EXCEPT !.closes = @ + 1]
                /\ UNCHANGED _connection
        /\ UNCHANGED <<engineVars, state, note_states, model_states, poolVars, hashIn,
                       hashOut>>
\* close line 59: self._connection = None
DbCloseDone ==
    \E t \in Threads :
        /\ threads[t].pc = "exec" /\ threads[t].op = "close"
        /\ _connection' = [_connection EXCEPT !.h = 0, !.open = FALSE]
        /\ asked' = [asked EXCEPT !.closes = @ + 1, !.shut = TRUE]
        /\ Return(t, None, None, FALSE)
        /\ UNCHANGED <<engineVars, state, note_states, model_states, poolVars, hashIn,
                       hashOut>>

\* Threads sharing one DatabaseManager.
NextStore ==
    \/ DbCall \/ DbAcquire \/ DbCheckGet \/ DbGetConnection \/ DbSelect
    \/ DbUpsert \/ DbCheckClose \/ DbCloseDone
SpecStore == InitStore /\ [][NextStore]_vars

\* ------------------------------------- services/pull_service.py: the pool
\* pull_all_models lines 112-118: one _process_single_model per listed model,
\* run by the threads of the executor on the one StateManager.  Worker 1 has
\* the model whose notes are remoteNotes, the others a sibling model with one
\* note of its own.
Workers == 1..Min(MaxPoolModels, Len(SiblingModels) + 1)
\* model_names (line 88): the names the remote lists; the remote keeps them
\* distinct, and "M" and "M:", or "S 1" and "S_1", are names it can hold together.
ListedNames == {ModelName} \cup Range(SiblingModels) \cup {"M:", "S_1"}
Listings ==
    {l \in [Workers -> ListedNames] :
        /\ l[1] = ModelName
        /\ \A v, w \in Workers : v # w => l[v] # l[w]}
PoolModel(w) == listing[w]
\* _process_single_model lines 153-155: the folder the worker writes into.
model_dir(w) == sanitize_filename(PoolModel(w))
SiblingNoteId(w) == 10 * w + 1
\* The hash updates _process_single_model makes, in order: the model hash
\* (lines 202-204), then one per note of the detail answer (257-261).
Writes(w) ==
    <<[ns |-> "model", key |-> PoolModel(w),
       hash |-> compute_model_hash(remoteCss, TemplatesMap(remoteTemplates))]>> \o
    (IF w = 1
     THEN [k \in DOMAIN find_notes |->
             [ns |-> "note", key |-> find_notes[k],
              hash |-> note_hash(PulledNotes(TRUE)[k])]]
     ELSE <<[ns |-> "note", key |-> SiblingNoteId(w), hash |-> note_hash(RemoteNote)]>>)
ApplyWrite(st, wr) ==
    IF wr.ns = "note" THEN update_note_hash(st, wr.key, wr.hash)
    ELSE update_model_hash(st, wr.key, wr.hash)

\* PullService.__init__ has loaded the state (line 44) and the executor has
\* been given the models; the store may hold hashes of an earlier run.
InitPool ==
    /\ mode = "legacy"
    /\ remoteNotes \in SeqsUpTo(NewContents \cup {RemoteNote}, MaxNotes)
    /\ nextId = Len(remoteNotes) + 1
    /\ remoteCss \in CssValues
    /\ remoteTemplates \in {[n \in {t} |-> <<"q", "a">>] : t \in TemplateNames}
    /\ notesExists = FALSE /\ notesFile = << >>
    /\ cssExists = FALSE /\ cssFile = "" /\ tplFiles = << >>
    /\ \E old \in {EmptyState,
                    [models |-> [n \in {ModelName} |-> compute_model_hash("old", << >>)],
                     notes |-> [i \in {1, SiblingNoteId(2), 99} |-> StaleHash]]} :
         /\ stateFiles = [p \in DbPaths |-> old]
         /\ state = old
    /\ pc = "pool"
    /\ NoLocals /\ RunReset /\ NoPrev
    /\ runs = 1 /\ edits = 0
    /\ Alone
    /\ NoStore /\ NoHashing
    /\ wdone = [w \in Workers |-> 0]
    /\ listing \in Listings
\* A worker makes its next hash update.
PoolWrite ==
    \E w \in Workers :
        /\ pc = "pool" /\ wdone[w] < Len(Writes(w))
        /\ state' = ApplyWrite(state, Writes(w)[wdone[w] + 1])
        /\ wdone' = [wdone EXCEPT ![w] = @ + 1]
        /\ UNCHANGED <<engineVars, storeVars, listing, hashIn, hashOut>>
NextPool == PoolWrite
SpecPool == InitPool /\ [][NextPool]_vars

\* ---------------------------------------------- utils/hashing.py on its own
\* The field dicts of a note: up to two fields, in either insertion order.
ItemLists ==
    {<< >>} \cup {<<<<k, v>>>> : k \in {"Front", "Back"}, v \in {"x", "y"}}
    \cup {<<<<k[1], v[1]>>, <<k[2], v[2]>>>> :
            k \in {<<"Front", "Back">>, <<"Back", "Front">>},
            v \in {"x", "y"} \X {"x", "y"}}
Permutation(s, t) ==
    /\ Len(s) = Len(t)
    /\ \A x \in Range(s) \cup Range(t) :
          Cardinality({i \in DOMAIN s : s[i] = x}) = Cardinality({i \in DOMAIN t : t[i] = x})
\* compute_note_hash(deck, tags, fields) called with the dict fields
hash_of(note) == compute_note_hash(note.deck, note.tags, dumps_sort_keys(note.items))

InitHash ==
    /\ EngineIdle /\ NoStore /\ NoPool
    /\ hashIn \in [deck : Decks, tags : TagLists, items : ItemLists]
    /\ hashOut = << >>
\* The caller holds the same note with its labels and fields in another order.
Reorder ==
    /\ hashIn # << >>
    /\ \E tags \in TagLists, items \in ItemLists :
         /\ Permutation(tags, hashIn.tags) /\ Permutation(items, hashIn.items)
         /\ <<tags, items>> # <<hashIn.tags, hashIn.items>>
         /\ hashIn' = [hashIn EXCEPT !.tags = tags, !.items = items]
    /\ UNCHANGED <<engineVars, state, storeVars, poolVars, hashOut>>
HashNote ==
    /\ hashIn # << >> /\ Len(hashOut) < MaxHashCalls
    /\ hashOut' = Append(hashOut, hash_of(hashIn))
    /\ UNCHANGED <<engineVars, state, storeVars, poolVars, hashIn>>
NextHash == Reorder \/ HashNote
SpecHash == InitHash /\ [][NextHash]_vars

\* ================================================================== claims
InSync == pc \in {"structure", "classify", "create", "update", "write", "save"}
Classified == pc \in {"create", "update", "write", "save"}
NotesDone == pc \in {"write", "save"}
ActionsFor(actions, id) == {k \in DOMAIN actions : actions[k].note = id}
SubmittedIds == {a.note : a \in UNION {Range(submitted[k]) : k \in DOMAIN submitted}}

C2_PullThenSyncSilent ==
    (InSync /\ prevOp = "pull" /\ prevOk)
        => (createCalls = 0 /\ submitted = << >> /\ styleCalls = 0)

\* C3: after a pass whose create call returned, every record that was given an
\* identifier holds, in memory and in the rewritten file, the value returned at
\* its position of the batch, and the hash stored for that identifier is the
\* fingerprint of the deck, tags and fields submitted for it.
C3_CreateRoundTrip ==
    (pc = "save" /\ new_ids # << >>) =>
        \A i \in DOMAIN new_ids :
            new_ids[i] # NULL =>
                /\ notes_data[to_create_indices[i]].id = new_ids[i]
                /\ notesFile[to_create_indices[i]].id = new_ids[i]
                /\ get_note_hash(state, new_ids[i]) = payload_hash(to_create[i])
                /\ get_note_hash(state, new_ids[i]) = note_hash(notesFile[to_create_indices[i]])

\* C3 witness: a pass is over in which a record got an identifier and that
\* record is not at the same place in the file as in the batch.
C3_Witness ==
    /\ pc = "save" /\ new_ids # << >>
    /\ \E i \in DOMAIN new_ids : new_ids[i] # NULL /\ to_create_indices[i] # i

\* C4: when the create call returned, exactly the records at the non-null
\* positions have an identifier and a stored hash; the records at the null
\* positions keep none; and in the next run (nothing edited in between) the
\* records that got null are in the create batch again and the create call is
\* made, while those that got an identifier are not in it.
C4_PartialCreate ==
    /\ (NotesDone /\ new_ids # << >>) =>
          /\ \A i \in DOMAIN new_ids :
                (new_ids[i] = NULL) <=> (notes_data[to_create_indices[i]].id = NULL)
          /\ DOMAIN state.notes \ (DOMAIN hash0 \cup DOMAIN dirty_note_hashes)
                = {new_ids[i] : i \in {j \in DOMAIN new_ids : new_ids[j] # NULL}}
          /\ NULL \notin DOMAIN state.notes
    /\ (pc = "save" /\ new_ids # << >>) =>
          \A i \in DOMAIN new_ids :
                (new_ids[i] = NULL) <=> (notesFile[to_create_indices[i]].id = NULL)
    /\ (NotesDone /\ prevOp = "sync" /\ prevNull # {}) =>
          /\ createCalls = 1
          /\ prevNull \subseteq Range(to_create_indices)
          /\ prevGot \cap Range(to_create_indices) = {}

\* C4 witness: the run after a create call that returned both identifiers and
\* nulls has made its own create call for the record left without identifier.
C4_Witness ==
    /\ pc = "save" /\ prevOp = "sync" /\ prevNull # {} /\ prevGot # {}
    /\ createCalls = 1 /\ Len(to_create) = 1

\* C5: of the records that have an identifier, one whose fingerprint equals the
\* stored hash has no sub-operation in the pending batch nor in any submitted
\* chunk; one whose fingerprint differs from the stored hash, or that has no
\* stored hash, is pending with its new hash and has a field update followed by
\* a label update in the batch.
C5_UpdateGating ==
    Classified =>
        \A i \in DOMAIN notes_data \ Range(to_create_indices) :
            LET note == notes_data[i]
                same == note_hash(note) = Get(hash0, note.id)
            IN /\ same =>
                    /\ ActionsFor(batch_actions, note.id) = {}
                    /\ note.id \notin DOMAIN dirty_note_hashes
                    /\ note.id \notin SubmittedIds
               /\ ~same =>
                    /\ note.id \in DOMAIN dirty_note_hashes
                    /\ dirty_note_hashes[note.id] = note_hash(note)
                    /\ \E k \in DOMAIN batch_actions :
                          /\ k + 1 \in DOMAIN batch_actions
                          /\ batch_actions[k] = create_update_fields_action(note.id, note.fields)
                          /\ batch_actions[k + 1] = create_update_tags_action(note.id, note.tags)

\* C5 witness: a classified folder holds a record whose hash is stored and equal,
\* a record whose stored hash differs and its batch holds two sub-operations.
C5_Witness ==
    /\ pc = "create" /\ Len(batch_actions) = 2
    /\ \E i, j \in DOMAIN notes_data :
          /\ notes_data[i].id # NULL /\ notes_data[j].id # NULL
          /\ note_hash(notes_data[i]) = Get(hash0, notes_data[i].id)
          /\ Get(hash0, notes_data[j].id) # None
          /\ note_hash(notes_data[j]) # Get(hash0, notes_data[j].id)

IdsOf(chunk) == {a.note : a \in Range(chunk)}
IdsBefore(k) == UNION {IdsOf(submitted[j]) : j \in 1..(k - 1)}

\* C6 (as stated): when the batch call for chunk k raised, the stored hashes of
\* the records of the chunks before k are their new fingerprints and the stored
\* hashes of the other pending records are unchanged.
C6_EarlierChunksStored ==
    (NotesDone /\ failedChunk >= 1) =>
        /\ \A id \in IdsBefore(failedChunk) :
              get_note_hash(state, id) = dirty_note_hashes[id]
        /\ \A id \in DOMAIN dirty_note_hashes \ IdsBefore(failedChunk) :
              get_note_hash(state, id) = Get(hash0, id)

\* C6 (amended): when the batch call for chunk k raised, no chunk after k was
\* submitted and the stored hash of every pending record is unchanged, those of
\* the chunks before k included.
C6_FailedBatchStoresNothing ==
    (NotesDone /\ failedChunk >= 1) =>
        /\ Len(submitted) = failedChunk
        /\ \A id \in DOMAIN dirty_note_hashes :
              get_note_hash(state, id) = Get(hash0, id)

\* C6 witness: the second chunk raised after a full first chunk returned.
C6_Witness ==
    /\ pc = "save" /\ failedChunk = 2 /\ Len(submitted[1]) = chunk_size
    /\ IdsBefore(2) # {}

CeilDiv(n, d) == (n + d - 1) \div d
RECURSIVE Flatten(_)
Flatten(chunks) ==
    IF chunks = << >> THEN << >> ELSE Head(chunks) \o Flatten(Tail(chunks))

\* C7: when no batch call raised, the n pending sub-operations went out in
\* ceil(n / 500) calls of 1 to 500 sub-operations each, whose concatenation is
\* the pending list.
C7_Chunking ==
    (NotesDone /\ failedChunk = 0) =>
        /\ Len(submitted) = CeilDiv(Len(batch_actions), 500)
        /\ \A k \in DOMAIN submitted : Len(submitted[k]) \in 1..500
        /\ Flatten(submitted) = batch_actions

\* C7 witness: three chunks went out and none raised.
C7_Witness ==
    /\ pc = "save" /\ failedChunk = 0 /\ Len(submitted) = 3
    /\ Len(batch_actions) > 2 * chunk_size

\* C8: the stored hash of a record whose update the remote reported as failed,
\* by raising for its chunk or by an error entry for one of its sub-operations,
\* is not the record's new fingerprint.
C8_RejectedNotStored ==
    NotesDone =>
        \A id \in rejected \cup FailedIds :
            get_note_hash(state, id) # dirty_note_hashes[id]

\* The ids that have a field update followed by a label update in the batch.
PendingPairs ==
    {batch_actions[k].note :
        k \in {j \in DOMAIN batch_actions :
                 /\ j + 1 \in DOMAIN batch_actions
                 /\ batch_actions[j].action = "updateNoteFields"
                 /\ batch_actions[j + 1].action = "updateNoteTags"
                 /\ batch_actions[j + 1].note = batch_actions[j].note}}

C10_RoutingById ==
    (pc = "create") =>
        /\ notes_data = notesFile
        /\ Range(to_create_indices) = {i \in DOMAIN notes_data : notes_data[i].id = NULL}
        /\ Len(to_create) = Len(to_create_indices)
        /\ \A k \in DOMAIN to_create :
              /\ to_create[k] = anki_note(notes_data[to_create_indices[k]])
              /\ \A j \in 1..(k - 1) : to_create_indices[j] < to_create_indices[k]

\* C10 witness: the store was lost after a run; the next classification meets a
\* record with an identifier and no stored hash beside a record without identifier.
C10_Witness ==
    /\ pc = "create" /\ runs = 2 /\ edits = 1
    /\ state.notes = << >>
    /\ \E i, j \in DOMAIN notes_data :
          /\ notes_data[i].id # NULL /\ i \notin Range(to_create_indices)
          /\ notes_data[j].id = NULL

\* C11: no record of the local file has had two remote notes created for it by
\* sync runs between which nothing was edited, whether or not a run stopped on
\* the way.
C11_NoSecondRemoteRecord ==
    \A x \in DOMAIN created : created[x] <= 1

\* C12: a record with an identifier whose stored hash is the fingerprint of the
\* same fields under another deck, or under another set of tags, is pending an
\* update (new hash, field update and label update) once the pass has classified.
OtherGrouping(note, d, t) ==
    \/ d # note.deck /\ t = note.tags
    \/ d = note.deck /\ Range(t) # Range(note.tags)
C12_GroupingOrLabelsUpdate ==
    Classified =>
        \A i \in DOMAIN notes_data \ Range(to_create_indices) :
            LET note == notes_data[i]
            IN \A d \in Decks, t \in TagLists \cup {RemoteNote.tags} :
                  (/\ OtherGrouping(note, d, t)
                   /\ Get(hash0, note.id) = compute_note_hash(d, t, note.fields))
                      => /\ note.id \in DOMAIN dirty_note_hashes
                         /\ dirty_note_hashes[note.id] = note_hash(note)
                         /\ note.id \in PendingPairs

\* C12 witness: after a run stored the hash of a record, only its deck was
\* edited, and the next run has classified it.
C12_Witness ==
    /\ pc = "create" /\ runs = 2 /\ edits = 1
    /\ \E i \in DOMAIN notes_data :
          /\ notes_data[i].id # NULL
          /\ \E d \in Decks \ {notes_data[i].deck} :
                Get(hash0, notes_data[i].id)
                    = compute_note_hash(d, notes_data[i].tags, notes_data[i].fields)
          /\ notes_data[i].id \in PendingPairs

\* C13: every sub-operation handed to the remote in a batch is a field update
\* or a label update, and no step of a sync run, a run after records were
\* removed from the file included, takes a note away from the remote.
SubmittedOps == {a.action : a \in UNION {Range(submitted[k]) : k \in DOMAIN submitted}}
C13_NoRemoteDelete ==
    /\ [](SubmittedOps \subseteq {"updateNoteFields", "updateNoteTags"})
    /\ [][DOMAIN remoteNotes \subseteq DOMAIN remoteNotes']_vars

\* C13 witness: a run that followed the removal of a record from the file has
\* sent its batches and the remote still holds the note of the removed record.
C13_Witness ==
    /\ pc = "save" /\ runs = 2 /\ edits = 1 /\ submitted # << >>
    /\ \E id \in DOMAIN remoteNotes :
          /\ id \in DOMAIN hash0
          /\ \A i \in DOMAIN notes_data : notes_data[i].id # id

\* C14: when the record phase of a pass is over, notes.yaml was dumped by the
\* pass if and only if the pass assigned an identifier to a record; after no
\* candidate, a failed create call or only nulls it was not dumped.
AssignedIds == {i \in DOMAIN new_ids : new_ids[i] # NULL}
C14_FileWrittenOnlyOnNewId ==
    (pc = "save") => (fileWrites > 0 <=> AssignedIds # {})

\* C15: a sync run leaves the records of notes.yaml as they were (same number,
\* same order, same deck, tags and fields, same identifier where there was one)
\* except for the identifier of records that had none; the same holds of the
\* records in memory against the file.
SameButNewIds(old, new) ==
    /\ Len(new) = Len(old)
    /\ \A i \in DOMAIN old :
          /\ new[i].deck = old[i].deck
          /\ new[i].tags = old[i].tags
          /\ new[i].fields = old[i].fields
          /\ (old[i].id # NULL => new[i].id = old[i].id)
C15_OnlyNewIdsChange ==
    /\ [](Classified => SameButNewIds(notesFile, notes_data))
    /\ [][InSync => (notesExists' = notesExists /\ SameButNewIds(notesFile, notesFile'))]_vars

\* C15 witness: a pass dumped a file in which one record got its identifier and
\* another had one before.
C15_Witness ==
    /\ pc = "save" /\ fileWrites = 1 /\ AssignedIds # {}
    /\ \E j \in DOMAIN notesFile :
          notesFile[j].id # NULL /\ j \notin Range(to_create_indices)

\* C16: when a sync command is over, every sibling collection of the run was
\* taken by the loop, whatever failed in a collection before it.
C16_SiblingsStillSynced ==
    (pc = "idle" /\ prevOp = "sync") => Len(sibs) = targets

\* The create call of the pass raised: it was made and gave no answer.
CreateRaised == createCalls = 1 /\ new_ids = << >>

\* C17 (as stated): after the create call of a collection raised, no update
\* batch is handed to the remote for that collection in that run.
C17_CreateFailureStopsUpdates ==
    (NotesDone /\ CreateRaised) => submitted = << >>

\* C17 (amended): after the create call of a collection raised, no record got
\* an identifier and no hash was stored for a new record, and the pending
\* updates of the collection were still handed to the remote in that run.
C17_CreateFailureKeepsUpdates ==
    (NotesDone /\ CreateRaised) =>
        /\ \A i \in Range(to_create_indices) : notes_data[i].id = NULL
        /\ DOMAIN state.notes \subseteq DOMAIN hash0 \cup DOMAIN dirty_note_hashes
        /\ (batch_actions # << >> => submitted # << >>)
        /\ (batch_actions # << >> /\ failedChunk = 0 => Flatten(submitted) = batch_actions)

\* C17 witness: the create call raised and the update batch of the same pass
\* went through.
C17_Witness ==
    /\ pc = "save" /\ CreateRaised /\ submitted # << >> /\ failedChunk = 0
    /\ \E id \in DOMAIN dirty_note_hashes : get_note_hash(state, id) = dirty_note_hashes[id]

\* C18: when a pull command that took its collections is over, in either mode,
\* every sibling collection was taken and has its folder, whatever failed in
\* another collection, and the collection whose own fetches all succeeded has
\* its records written (or its stale notes.yaml removed).
C18_PullIsolatesFailures ==
    (pc = "idle" /\ prevOp = "pull") =>
        /\ Len(sibs) = targets
        /\ \A k \in 1..targets : SiblingFolder(k) \in dirs
        /\ sanitize_filename(ModelName) \in dirs
        /\ prevOk => /\ notesExists = (remoteNotes # << >>)
                     /\ notesFile = PulledNotes(TRUE)

\* C18 witness: the fetch of one collection failed, a sibling failed too, and
\* the sibling taken after them was pulled.
C18_Witness ==
    /\ pc = "idle" /\ prevOp = "pull" /\ ~prevOk
    /\ sibs = <<"failed", "pulled">>

\* C19 (as stated): after the cleanup of a whole-profile pull every directory
\* of the root is the folder of a listed model.
C19_OnlyListedFoldersRemain ==
    (pc = "pull_done") => dirs \subseteq ActiveFolders

\* C19 (amended): after the cleanup of a whole-profile pull every directory of
\* the root is the folder of a listed model, or has a name starting with "_" or
\* ".", or is one whose removal failed; the folders of the listed models are
\* all there.
C19_StaleFoldersRemoved ==
    (pc = "pull_done") =>
        /\ \A f \in dirs :
              f \in ActiveFolders \/ f \in {".git", "_media"} \/ f \in rmFailed
        /\ ActiveFolders \subseteq dirs

\* C19 witness: the cleanup removed the folder of the model that is no longer
\* listed and left the directories of other tools and the siblings' folders.
C19_Witness ==
    /\ pc = "pull_done" /\ "Old" \notin dirs /\ rmFailed = {}
    /\ {".git", "_media"} \subseteq dirs /\ targets = 2

\* C20: no step of a project-mode pull takes a directory away from the root.
C20_ProjectPullKeepsFolders ==
    [][(mode = "project") => dirs \subseteq dirs']_vars

\* C20 witness: a project-mode pull is over; the folder no target declares is
\* still there beside the folders of the targets, and the stale notes.yaml of
\* the collection without remote notes is gone.
C20_Witness ==
    /\ mode = "project" /\ pc = "idle" /\ prevOp = "pull"
    /\ "Old" \in dirs /\ targets = 2 /\ SiblingFolder(2) \in dirs
    /\ remoteNotes = << >> /\ ~notesExists

\* C21: when the records of a collection were pulled without failure,
\* notes.yaml exists exactly when the query matched a note, and it then holds
\* one record per matched note, in the order of the answer, with the note's
\* deck, tags and fields.
C21_PulledFileMatchesRemote ==
    (pc = "pull_end" /\ runOk) =>
        /\ notesExists = (find_notes # << >>)
        /\ Len(notesFile) = Len(find_notes)
        /\ \A k \in DOMAIN notesFile :
              notesFile[k] = Note(find_notes[k], remoteNotes[find_notes[k]])

\* C21 witness: a pull replaced a file of several records whose order differed
\* from the order of the answer.
C21_Witness ==
    /\ pc = "pull_end" /\ runOk /\ Len(notesFile) >= 2
    /\ prevOp = "sync" /\ prevGot # {} /\ 1 \notin prevGot

\* C26: a sync command in which the save of the stored hashes failed ends as a
\* failed command: the failure reaches main.py, which reports an error instead
\* of a completed sync.
C26_StoreFailureReachesTop ==
    (pc = "idle" /\ outcome.cause = "store") => outcome.said = "error"

\* C28: a sync or pull command that could not do its work at the top level
\* (no profile could be determined, or a remote failure ended the command)
\* exits with a non-zero status, in both modes.
C28_NonZeroExit ==
    (pc = "idle" /\ outcome.cause \in {"remote", "noprofile"}) => outcome.exit # 0

\* C29 as stated: once the loop is done with a collection whose model name is
\* not resolved or whose notes.yaml is missing, no style push, no create call
\* and no update batch was issued for it.
C29_SkippedWithoutAnyCall ==
    (pc = "save" /\ ((mode = "legacy" /\ ~configOk) \/ ~notesExists)) =>
        styleCalls = 0 /\ createCalls = 0 /\ submitted = << >>

\* C29 amended: a folder of a whole-profile sync whose config.yaml gives no
\* model name gets no remote call, and the loop goes on to the other
\* collections and to the save; a collection without notes.yaml gets no create
\* call and no update batch (its style is still compared and may be pushed).
C29_SkippedCollections ==
    /\ (InSync /\ mode = "legacy" /\ ~configOk) =>
          /\ pc \in {"structure", "save"}
          /\ styleCalls = 0 /\ createCalls = 0 /\ submitted = << >>
    /\ (pc = "save" /\ ~notesExists) => (createCalls = 0 /\ submitted = << >>)
    /\ (pc = "idle" /\ prevOp = "sync" /\ mode = "legacy" /\ ~configOk
           /\ "failed" \notin Range(sibs)) =>
          (Len(sibs) = targets /\ outcome.said = "completed")

\* C29 witness: the unresolved folder was passed over between two siblings that
\* were synced.
C29_Witness ==
    /\ pc = "save" /\ mode = "legacy" /\ ~configOk /\ notesExists
    /\ targets = 2 /\ sibs = <<"synced", "synced">>

\* C30: once _sync_model_structure is done, the style was pushed exactly when
\* the hash of the local style and templates differed from the hash stored
\* when the run started (none stored counts as different), and the in-memory
\* store then holds the new hash; a run ended by a failed push leaves the
\* stored hash as it was, so that the next run pushes again.
C30_StructureGating ==
    LET stored == get_model_hash(stateFiles[SyncDbPath(mode)], ModelName)
    IN /\ (pc \in {"classify", "create", "update", "write", "save"}) =>
            /\ styleCalls = (IF LocalModelHash # stored THEN 1 ELSE 0)
            /\ get_model_hash(state, ModelName) = LocalModelHash
            /\ (styleCalls = 1 => remoteCss = LocalCss)
       /\ (pc = "idle" /\ prevOp = "sync" /\ outcome.cause = "remote") =>
            LocalModelHash # stored
       /\ (pc \in {"classify", "create", "update", "write", "save"}
              /\ prevOp = "sync" /\ outcome.cause = "remote") => styleCalls = 1

\* C30 witness: the run after a failed style push has pushed the style again.
C30_Witness ==
    /\ pc = "classify" /\ prevOp = "sync" /\ outcome.cause = "remote"
    /\ styleCalls = 1 /\ remoteCss = LocalCss

\* C22: each table holds at most one row per key; a lookup of a key finds the
\* hash of the most recent committed set of that key in that namespace (None
\* if there was none), whatever was set under other keys or in the other
\* namespace, in the DatabaseManager tables and in the StateManager dicts; and
\* while the store was never closed, a get call returned just that.
C22_Upsert ==
    /\ \A ns \in Namespaces : \A k \in StoreKeys(ns) :
          /\ Cardinality({r \in Table(ns) : r[1] = k}) <= 1
          /\ select_hash(Table(ns), k) = LastSet(ns, k)
    /\ \A k \in StoreKeys("note") : get_note_hash(state, k) = LastSet("note", k)
    /\ \A k \in StoreKeys("model") : get_model_hash(state, k) = LastSet("model", k)
    /\ \A t \in Threads :
          (threads[t].pc = "idle" /\ threads[t].op = "get" /\ asked.closes = 0)
              => (~threads[t].raised /\ threads[t].ret = threads[t].want)

\* C22 witness: a key was set twice with different hashes, another key and the
\* other namespace were set too, and a get returned the later hash.
C22_Witness ==
    /\ Len(asked.sets) >= 2 /\ asked.closes = 0
    /\ asked.sets[1].ns = "note" /\ asked.sets[2].ns = "note"
    /\ asked.sets[1].key = asked.sets[2].key
    /\ asked.sets[1].hash # asked.sets[2].hash
    /\ \E t \in Threads :
          /\ threads[t].pc = "idle" /\ threads[t].op = "get" /\ threads[t].ns = "note"
          /\ threads[t].key = asked.sets[1].key
          /\ threads[t].ret = asked.sets[2].hash

\* C23: a close() call that returns leaves no handle, raises nothing and
\* changes no table; on a store that holds no handle it changes nothing at all.
C23_CloseIdempotent ==
    [][\A t \in Threads :
         (threads[t].op = "close" /\ threads[t].pc \in {"check", "exec"}
            /\ threads'[t].pc = "idle") =>
              /\ ~threads'[t].raised
              /\ _connection'.h = 0
              /\ note_states' = note_states /\ model_states' = model_states
              /\ (_connection.h = 0 => _connection' = _connection)]_vars

\* C23 witness: a second close() returned on the closed store, after a set.
C23_Witness ==
    /\ asked.closes >= 2 /\ _connection.h = 0 /\ asked.sets # << >>
    /\ \A t \in Threads : threads[t].pc = "idle" /\ ~threads[t].raised

\* C24: at most one thread is inside a method body, and it holds the lock; a
\* handle that is being closed is seen by the closing thread only; no call
\* raised.
C24_MutualExclusion ==
    LET InBody(t) == threads[t].pc \in {"check", "conn", "exec"}
    IN /\ Cardinality({t \in Threads : InBody(t)}) <= 1
       /\ \A t \in Threads : InBody(t) => _lock = t
       /\ \A t \in Threads : ~threads[t].raised
       /\ (_connection.h # 0 /\ ~_connection.open) =>
             \E t \in Threads : InBody(t) /\ threads[t].op = "close"

\* C24 witness: a thread waits for the lock with a get while another thread is
\* between closing the handle and dropping it.
C24_Witness ==
    \E t, u \in Threads :
        /\ threads[t].pc = "exec" /\ threads[t].op = "close"
        /\ threads[u].pc = "wait" /\ threads[u].op = "get"
        /\ asked.sets # << >>

\* C25: whatever the order in which the workers of a pull made their hash
\* updates, every update made so far is in the store, and once all workers
\* are done the store maps each pulled note to the hash of its remote content
\* and each pulled model to the hash of its remote style and templates, and
\* holds nothing else but the entries loaded for other keys.
C25_InterleavingIndependence ==
    LET loaded == _load_state(PullDbPath(mode))
        Lookup(wr) == IF wr.ns = "note" THEN get_note_hash(state, wr.key)
                      ELSE get_model_hash(state, wr.key)
        pulledIds == DOMAIN remoteNotes \cup {SiblingNoteId(w) : w \in Workers \ {1}}
        pulledModels == {PoolModel(w) : w \in Workers}
    IN (pc = "pool") =>
        /\ \A w \in Workers : \A i \in 1..wdone[w] :
              Lookup(Writes(w)[i]) = Writes(w)[i].hash
        /\ (\A w \in Workers : wdone[w] = Len(Writes(w))) =>
              /\ DOMAIN state.notes = pulledIds \cup DOMAIN loaded.notes
              /\ DOMAIN state.models = pulledModels \cup DOMAIN loaded.models
              /\ \A id \in DOMAIN remoteNotes :
                    state.notes[id] = compute_note_hash(remoteNotes[id].deck,
                                          remoteNotes[id].tags, remoteNotes[id].fields)
              /\ \A w \in Workers \ {1} :
                    state.notes[SiblingNoteId(w)] = note_hash(RemoteNote)
              /\ \A m \in pulledModels :
                    state.models[m] = compute_model_hash(remoteCss,
                                                         TemplatesMap(remoteTemplates))
              /\ \A id \in DOMAIN loaded.notes \ pulledIds :
                    state.notes[id] = loaded.notes[id]

\* C25 witness: two workers have each made some of their updates, neither is
\* done, and the store held other hashes for the keys before.
C25_Witness ==
    /\ pc = "pool" /\ Len(remoteNotes) = 2
    /\ \A w \in Workers : wdone[w] >= 1 /\ wdone[w] < Len(Writes(w))
    /\ _load_state(PullDbPath(mode)) # EmptyState

\* C27: the hashes computed for one note are all equal, however its labels
\* and the items of its field dict were ordered at each call.
C27_FingerprintDeterminism ==
    \A i, j \in DOMAIN hashOut : hashOut[i] = hashOut[j]

\* C27 witness: the note has two labels and two fields, and it was hashed,
\* reordered and hashed again.
C27_Witness ==
    /\ Len(hashOut) >= 2 /\ Len(hashIn.tags) = 2 /\ Len(hashIn.items) = 2
    /\ hashIn.tags = <<"b", "a">> /\ hashIn.items[1][1] = "Front"

\* C31: when the first update batch of a pass has been handed to the remote,
\* the create call of the pass (if it had records to create) was made, the
\* returned identifiers are in the records in memory, and notes.yaml was
\* rewritten with them.
C31_CreateResolvedBeforeUpdate ==
    (InSync /\ submitted # << >> /\ to_create # << >>) =>
        /\ createCalls = 1
        /\ \A i \in DOMAIN new_ids :
              new_ids[i] # NULL => notes_data[to_create_indices[i]].id = new_ids[i]
        /\ (\E i \in DOMAIN new_ids : new_ids[i] # NULL) => fileWrites >= 1

\* C32: a record with an identifier whose fingerprint differs from the stored
\* hash has exactly two sub-operations in the batch, a field update directly
\* followed by a label update, both with its identifier and its values; once
\* the batches of the pass returned, the stored hash of the identifier is the
\* record's fingerprint.
C32_UpdatePair ==
    Classified =>
        \A i \in DOMAIN notes_data \ Range(to_create_indices) :
            LET note == notes_data[i]
                at == ActionsFor(batch_actions, note.id)
            IN note_hash(note) # Get(hash0, note.id) =>
                /\ Cardinality(at) = 2
                /\ \E k \in at :
                      /\ at = {k, k + 1}
                      /\ batch_actions[k] = [action |-> "updateNoteFields",
                                              note |-> note.id, payload |-> note.fields]
                      /\ batch_actions[k + 1] = [action |-> "updateNoteTags",
                                                  note |-> note.id, payload |-> note.tags]
                /\ (NotesDone /\ failedChunk = 0) =>
                      get_note_hash(state, note.id) = note_hash(note)

\* C32 witness: a record changed after its hash was stored, next to a new
\* record, and the batch with its two sub-operations returned.
C32_Witness ==
    /\ pc = "save" /\ failedChunk = 0 /\ Len(batch_actions) = 2
    /\ submitted = <<batch_actions>> /\ createCalls = 1 /\ edits = 1

\* C33: in project mode the pull command starts from the content of the state
\* file that the sync command of the same project loads.
C33_SameStoreInProject ==
    (mode = "project" /\ pc = "pull_meta" /\ sibs = << >>) =>
        state = _load_state(SyncDbPath(mode))

\* C34: when a sync command is over and no save of the state failed, the hash
\* of every record that got its identifier in the collection the run completed
\* is in the state file, also when a later collection of the run raised.
C34_CompletedHashesPersisted ==
    (pc = "idle" /\ prevOp = "sync" /\ outcome.cause \in {"none", "remote"}) =>
        \A i \in prevGot :
            get_note_hash(stateFiles[SyncDbPath(mode)], notesFile[i].id)
                = note_hash(notesFile[i])

\* C35: in a whole-profile pull, two workers given distinct model names
\* never write into the same folder.
C35_DistinctFolders ==
    (pc = "pool" /\ mode = "legacy") =>
        \A v, w \in Workers :
            (v # w /\ wdone[v] >= 1 /\ wdone[w] >= 1 /\ PoolModel(v) # PoolModel(w))
                => model_dir(v) # model_dir(w)

\* C36: the stale-folder cleanup of a whole-profile pull starts only when every
\* worker has finished, and it removes the folder of no listed model, also
\* when the pull of that model failed.
C36_ListedFolders ==
    {sanitize_filename(m) : m \in {ModelName} \cup {SiblingModels[k] : k \in 1..targets}}
C36_CleanupAfterWorkers ==
    [][(pc = "pull_end" /\ pc' = "pull_done") =>
          /\ Len(sibs) = targets
          /\ \A f \in C36_ListedFolders : f \in dirs => f \in dirs']_vars
C36_Witness ==
    /\ pc = "pull_done" /\ mode = "legacy"
    /\ \E k \in DOMAIN sibs : sibs[k] = "failed" /\ SiblingFolder(k) \in dirs
    /\ "Old" \notin dirs

\* C37: the two sub-operations of one UPDATE record are always sent in the same
\* chunk: every chunk is a sequence of whole pairs, the field update of a
\* note followed by the label update of the same note.
C37_PairInOneChunk ==
    \A c \in DOMAIN submitted :
        /\ Len(submitted[c]) % 2 = 0
        /\ \A j \in 1..(Len(submitted[c]) \div 2) :
              /\ submitted[c][2 * j - 1].action = "updateNoteFields"
              /\ submitted[c][2 * j].action = "updateNoteTags"
              /\ submitted[c][2 * j - 1].note = submitted[c][2 * j].note
C37_Witness ==
    /\ Len(submitted) >= 3
    /\ Len(submitted[1]) = chunk_size /\ Len(submitted[2]) = chunk_size
    /\ submitted[2][chunk_size].note # submitted[3][1].note

\* C38: once close() has returned, a get returns absent for every key until a
\* later set has reopened the store; from then on a get returns the hash
\* last stored for its key, the hashes stored before the close included.
C38_AbsentWhileClosed ==
    [][\A t \in DOMAIN threads :
          (threads[t].op = "get" /\ threads[t].pc # "idle" /\ threads'[t].pc = "idle") =>
              /\ ~threads'[t].raised
              /\ threads'[t].ret = IF asked.shut THEN None
                                   ELSE LastSet(threads[t].ns, threads[t].key)]_vars
C38_Witness ==
    /\ asked.closes = 1 /\ ~asked.shut /\ Len(asked.sets) = 2
    /\ asked.sets[1].on = 1 /\ asked.sets[2].on = 2
    /\ \E t \in DOMAIN threads :
          /\ threads[t].pc = "idle" /\ threads[t].op = "get" /\ threads[t].conn = 2
          /\ threads[t].ns = asked.sets[1].ns /\ threads[t].key = asked.sets[1].key
          /\ <<asked.sets[2].ns, asked.sets[2].key>> # <<threads[t].ns, threads[t].key>>
          /\ threads[t].ret = asked.sets[1].hash

\* C39: the structure step of a folder with no style file, no template files
\* and no stored model hash sends the empty string as the style text and
\* stores the hash of the empty structure; the next run over the unchanged
\* folder, the first one having ended normally, sends no style.
C39_EmptyStructure ==
    (pc \in {"classify", "create", "update", "write", "save"}
        /\ ~cssExists /\ tplFiles = << >>) =>
        /\ get_model_hash(stateFiles[SyncDbPath(mode)], ModelName) = None =>
              /\ styleCalls = 1
              /\ remoteCss = ""
              /\ get_model_hash(state, ModelName) = compute_model_hash("", << >>)
        /\ (runs = 2 /\ edits = 0 /\ prevOp = "sync" /\ outcome.cause = "none") =>
              /\ styleCalls = 0
              /\ remoteCss = ""
              /\ get_model_hash(state, ModelName) = compute_model_hash("", << >>)
C39_Witness ==
    /\ pc = "save" /\ runs = 2 /\ edits = 0
    /\ prevOp = "sync" /\ outcome.cause = "none"
    /\ ~cssExists /\ tplFiles = << >>
    /\ styleCalls = 0 /\ remoteCss = ""
====
